---- MODULE Spec2Model ----
(***************************************************************************)
(* A model of the deno-rsc-starter request pipeline:                       *)
(*   - the pattern router of src/main.ts (createRouter, execute, fetch),   *)
(*   - the request-scoped storage of lib/context.ts (src/unnamed/part_001),*)
(*   - the action processor and the action endpoint of                     *)
(*     src/src/framework/entry.rsc.tsx.                                    *)
(***************************************************************************)
EXTENDS Integers, Sequences, FiniteSets, TLC

\* ------------------------------------------------------------------ bounds
MaxRoutes == 2

\* ------------------------------------------------------------------ router
VARIABLES
  routes,         \* router.routes: the registered routes, in registration order
  handleDefault,  \* router.handleDefault: "builtin" or "custom"
  handleError,    \* router.handleError: "builtin" or "custom"
  request,        \* the request of the fetch in flight: [method, path]
  pc,             \* position of the fetch in flight
  idx,            \* the i of the execute(router, i, ...) call in progress
  viaNext,        \* TRUE when that execute call was made from inside next()
  stack,          \* the handlers suspended on their ctx.next(), outermost first
  outcome,        \* the value travelling up the chain: a response or a throw
  log             \* history of the fetch in flight: handlers run, next() calls

routerVars == <<routes, handleDefault, handleError, request, pc, idx, viaNext,
                stack, outcome, log>>

Verbs == {"GET", "POST"}

\* Route.method: undefined, one verb, or a list of verbs (main.ts:238).
AnyVerb == [tag |-> "undefined", verbs |-> {}]
OneVerb(v) == [tag |-> "one", verbs |-> {v}]
ManyVerbs(vs) == [tag |-> "many", verbs |-> vs]
RouteMethods == {AnyVerb, OneVerb("GET"), ManyVerbs({"POST", "PUT"})}

\* A pathname is its sequence of segments: /assets/x is <<"assets", "x">>.
Paths == {<<"assets", "x">>, <<"x">>}
\* A pathname pattern is a sequence of literal segments, ":name" segments
\* and a trailing "*".
Patterns == {<<"*">>, <<"assets", "*">>}

IsParam(seg) == seg \in {":id", ":name"}

\* URLPattern({ pathname }).exec on the pathname: literal segments match
\* themselves, a named segment matches one non-empty segment, a trailing
\* wildcard captures the (non-empty) remainder.
RECURSIVE PatternMatches(_, _)
PatternMatches(pattern, path) ==
  IF pattern = <<>> THEN path = <<>>
  ELSE IF Head(pattern) = "*" /\ Len(pattern) = 1 THEN path # <<>>
  ELSE IF path = <<>> THEN FALSE
  ELSE /\ \/ Head(pattern) = Head(path)
          \/ IsParam(Head(pattern)) /\ Head(path) # ""
       /\ PatternMatches(Tail(pattern), Tail(path))

\* The verb test of route(): an unset method accepts every verb, a list
\* accepts its members, a single verb accepts itself.
MethodMatchesIgnored(method, verb) == TRUE

MethodMatches(method, verb) ==
  IF method.tag = "undefined" THEN TRUE ELSE verb \in method.verbs

RouteMatches(r, req) ==
  /\ PatternMatches(r.pattern, req.path)
  /\ MethodMatches(r.method, req.method)

\* ---------------------------------------------------------------- values
\* What a handler produces: a Response, or a thrown value / rejected promise.
\* body names who wrote it; logged is the X-Request-Id header logMiddleware
\* adds; async tells a rejected promise from a synchronous throw.
Resp(status, body) ==
  [t |-> "resp", status |-> status, body |-> body, logged |-> FALSE,
   isError |-> FALSE, async |-> FALSE]
Thrown(isErr, who, async) ==
  [t |-> "throw", status |-> 0, body |-> <<"thrown", who>>, logged |-> FALSE,
   isError |-> isErr, async |-> async]
NoOutcome == Resp(0, <<"none", 0>>)

\* defaultNotFoundHandler and defaultErrorHandler.
defaultNotFoundHandlerNoStatus == Resp(200, <<"Not found", 0>>)

defaultNotFoundHandler == Resp(404, <<"Not found", 0>>)
defaultErrorHandler(error) == Resp(500, <<"message", error.body[2]>>)

\* The handlers a route may carry, by what they do with ctx.next():
\*   respond  returns a response, never calls next()
\*   throw    throws (or rejects), never calls next()
\*   pass     return ctx.next()
\*   wrap     awaits ctx.next() and returns the response with a header added
\*   after    awaits ctx.next() and then throws
\*   swallow  awaits ctx.next() in try/catch and answers itself on a throw
LeafKinds == {"respond", "throw"}
NextKinds == {"pass", "wrap", "after", "swallow"}
Kinds == LeafKinds \cup NextKinds

\* A history entry: what happened ("start", "next", "resume", "default",
\* "error", "settle"), the route index it concerns, the kind of handler, and
\* the value produced or received there.
Event(ev, i, kind, out) == [ev |-> ev, i |-> i, kind |-> kind, out |-> out]

InitRouter ==
  /\ routes = <<>>
  /\ handleDefault = "builtin"
  /\ handleError = "builtin"
  /\ request = [method |-> "GET", path |-> <<"x">>]
  /\ pc = "idle"
  /\ idx = 0
  /\ viaNext = FALSE
  /\ stack = <<>>
  /\ outcome = NoOutcome
  /\ log = <<>>

\* Registration happens during setup, before the first request is served.
Setup == pc = "idle"

\* router.with(route): routes.push(route).
With(route) ==
  /\ Setup
  /\ Len(routes) < MaxRoutes
  /\ routes' = Append(routes, route)
  /\ UNCHANGED <<handleDefault, handleError, request, pc, idx, viaNext, stack,
                 outcome, log>>

\* router.on(method, pathname, handler) = with({method, pattern, handler}).
On(method, pathname) == With([method |-> method, pattern |-> pathname])

\* router.use(list): routes.push(...list).
Use(list) ==
  /\ Setup
  /\ Len(list) > 0
  /\ Len(routes) + Len(list) <= MaxRoutes
  /\ routes' = routes \o list
  /\ UNCHANGED <<handleDefault, handleError, request, pc, idx, viaNext, stack,
                 outcome, log>>

\* logMiddleware(): one route, all methods, all paths.
logMiddleware == <<[method |-> AnyVerb, pattern |-> <<"*">>]>>

\* router.default(handle) and router.error(handle).
Default ==
  /\ Setup
  /\ handleDefault = "builtin"
  /\ handleDefault' = "custom"
  /\ UNCHANGED <<routes, handleError, request, pc, idx, viaNext, stack,
                 outcome, log>>

Error ==
  /\ Setup
  /\ handleError = "builtin"
  /\ handleError' = "custom"
  /\ UNCHANGED <<routes, handleDefault, request, pc, idx, viaNext, stack,
                 outcome, log>>

\* ---------------------------------------------------------------- dispatch
\* The index fetch starts the chain at (routes are numbered from 1 here).
StartIndexSecond == 1 + 1

StartIndex == 1

\* router.fetch(request): try { return await execute(router, 0, ...) }.
\* A route carries a handler, which is application code: what it does with
\* its context is drawn when it runs.
Fetch(method, path) ==
  /\ pc \in {"idle", "resolved", "rejected"}
  /\ request' = [method |-> method, path |-> path]
  /\ pc' = "execute"
  /\ idx' = StartIndex
  /\ viaNext' = FALSE
  /\ stack' = <<>>
  /\ outcome' = NoOutcome
  /\ log' = <<>>
  /\ UNCHANGED <<routes, handleDefault, handleError>>

\* toPartialContext(ctx).next: () => Promise.resolve(new Response('Internal
\* error')), a response of status 200.
PartialNext == Resp(200, <<"Internal error", 0>>)

\* The history of a handler that was given the partial context, after the
\* entry of the handler itself: its call of ctx.next(), if it made one, with
\* what the call gave.
StandIn(called, i, kind) ==
  IF called THEN <<Event("stand-in next", i, kind, PartialNext)>> ELSE <<>>

\* execute, i >= routes.length: return router.handleDefault(partial context).
\* A custom default handler answers, throws, or returns ctx.next().
ExecuteDefault ==
  /\ pc = "execute"
  /\ idx > Len(routes)
  /\ \E called \in BOOLEAN :
       /\ \/ /\ handleDefault = "builtin"
             /\ ~called
             /\ outcome' = defaultNotFoundHandler
          \/ /\ handleDefault = "custom"
             /\ ~called
             /\ \/ outcome' = Resp(404, <<"custom default", 0>>)
                \/ \E isErr \in BOOLEAN, async \in BOOLEAN :
                     outcome' = Thrown(isErr, idx, async \/ viaNext)
          \/ /\ handleDefault = "custom"
             /\ called
             /\ outcome' = PartialNext
       /\ log' = log \o <<Event("default", idx, handleDefault, outcome')>>
                     \o StandIn(called, idx, handleDefault)
  /\ pc' = "return"
  /\ UNCHANGED <<routes, handleDefault, handleError, request, idx, viaNext,
                 stack>>

\* execute, route i does not match: route() falls through to next(), which
\* is execute(router, i + 1, ...).
ExecuteSkip ==
  /\ pc = "execute"
  /\ idx <= Len(routes)
  /\ ~RouteMatches(routes[idx], request)
  /\ idx' = idx + 1
  /\ viaNext' = TRUE
  /\ UNCHANGED <<routes, handleDefault, handleError, request, pc, stack,
                 outcome, log>>

\* execute, route i matches and its handler runs without calling next().
ExecuteLeaf(kind) ==
  /\ pc = "execute"
  /\ idx <= Len(routes)
  /\ RouteMatches(routes[idx], request)
  /\ kind \in LeafKinds
  /\ \/ /\ kind = "respond"
        /\ outcome' = Resp(200, <<"route", idx>>)
     \/ /\ kind = "throw"
        /\ \E isErr \in BOOLEAN, async \in BOOLEAN :
             outcome' = Thrown(isErr, idx, async \/ viaNext)
  /\ log' = Append(log, Event("start", idx, kind, outcome'))
  /\ pc' = "return"
  /\ UNCHANGED <<routes, handleDefault, handleError, request, idx, viaNext,
                 stack>>

\* The index ctx.next() of the handler at index i continues from.
NextIndexSame(i) == i

NextIndex(i) == i + 1

\* execute, route i matches and its handler calls ctx.next(): the handler is
\* suspended and execute(router, i + 1, ...) runs.
ExecuteNext(kind) ==
  /\ pc = "execute"
  /\ idx <= Len(routes)
  /\ RouteMatches(routes[idx], request)
  /\ kind \in NextKinds
  /\ Len(stack) <= MaxRoutes      \* never binding: idx only grows
  /\ log' = log \o <<Event("start", idx, kind, NoOutcome),
                    Event("next", idx, kind, NoOutcome)>>
  /\ stack' = Append(stack, [i |-> idx, kind |-> kind])
  /\ idx' = NextIndex(idx)
  /\ viaNext' = TRUE
  /\ UNCHANGED <<routes, handleDefault, handleError, request, pc, outcome>>

\* What the handler suspended on next() makes of what next() gave it.
Resume(frame, o) ==
  CASE frame.kind = "pass" -> [o EXCEPT !.async = (o.t = "throw")]
    [] frame.kind = "wrap" ->
         IF o.t = "resp" THEN [o EXCEPT !.logged = TRUE]
         ELSE [o EXCEPT !.async = TRUE]
    [] frame.kind = "after" ->
         IF o.t = "resp" THEN Thrown(TRUE, frame.i, TRUE)
         ELSE [o EXCEPT !.async = TRUE]
    [] frame.kind = "swallow" ->
         IF o.t = "resp" THEN o ELSE Resp(200, <<"recovered", frame.i>>)

\* The promise of next() settles and the innermost suspended handler resumes.
Return ==
  /\ pc = "return"
  /\ stack # <<>>
  /\ outcome' = Resume(stack[Len(stack)], outcome)
  /\ stack' = SubSeq(stack, 1, Len(stack) - 1)
  /\ log' = Append(log, Event("resume", stack[Len(stack)].i,
                                stack[Len(stack)].kind, outcome'))
  /\ UNCHANGED <<routes, handleDefault, handleError, request, pc, idx, viaNext>>

\* fetch's try block sees a throw of execute and, through await, a rejection.
FetchCatchesSyncOnly(o) == o.t = "throw" /\ ~o.async

FetchCatches(o) == o.t = "throw"

\* The catch block delegates to handleError only an instance of Error.
DelegatesAll(o) == TRUE

Delegates(o) == o.isError

\* execute(router, 0, ...) returned a response: fetch resolves with it.
FetchResolve ==
  /\ pc = "return"
  /\ stack = <<>>
  /\ outcome.t = "resp"
  /\ pc' = "resolved"
  /\ log' = Append(log, Event("settle", 0, "return", outcome))
  /\ UNCHANGED <<routes, handleDefault, handleError, request, idx, viaNext,
                 stack, outcome>>

\* catch (error): error instanceof Error, return await handleError(error, ctx).
\* A custom error handler answers, throws, or returns ctx.next().
FetchHandleError ==
  /\ pc = "return"
  /\ stack = <<>>
  /\ FetchCatches(outcome)
  /\ Delegates(outcome)
  /\ \E called \in BOOLEAN :
       /\ \/ /\ handleError = "builtin"
             /\ ~called
             /\ outcome' = defaultErrorHandler(outcome)
             /\ pc' = "resolved"
          \/ /\ handleError = "custom"
             /\ ~called
             /\ \/ /\ outcome' = Resp(500, <<"custom error", outcome.body[2]>>)
                   /\ pc' = "resolved"
                \/ /\ outcome' = Thrown(TRUE, 0, TRUE)
                   /\ pc' = "rejected"
          \/ /\ handleError = "custom"
             /\ called
             /\ outcome' = PartialNext
             /\ pc' = "resolved"
       /\ log' = log \o <<Event("settle", 0, "catch", outcome),
                          Event("error", outcome.body[2], handleError,
                                outcome')>>
                     \o StandIn(called, outcome.body[2], handleError)
  /\ UNCHANGED <<routes, handleDefault, handleError, request, idx, viaNext,
                 stack>>

\* catch (error): not an Error, throw error; or a rejection the try block
\* never saw: the promise of fetch rejects.
FetchReject ==
  /\ pc = "return"
  /\ stack = <<>>
  /\ outcome.t = "throw"
  /\ ~(FetchCatches(outcome) /\ Delegates(outcome))
  /\ pc' = "rejected"
  /\ log' = Append(log, Event("settle", 0, "rethrow", outcome))
  /\ UNCHANGED <<routes, handleDefault, handleError, request, idx, viaNext,
                 stack, outcome>>

\* ------------------------------------------------- request-scoped storage
\* lib/context.ts. Two requests are in flight at most, "A" and "B"; the
\* objects created for a request (its RouteStorage, its Headers, the
\* ClientRouteState its closures share) are named after it.
VARIABLES
  store,             \* store[s]: the fields of the RouteStorage object s
  clientRouteState,  \* clientRouteState[s]: the state createRouteStorage closes over
  responseHeaders,   \* responseHeaders[s]: the Set-Cookie entries of Headers s
  als,               \* als[r]: routeStorage.getStore() in r's async context
  calls,             \* history: what the ambient accessor calls resolved to
  ncalls,            \* ncalls[r]: accessor calls made in r's scope so far
  spc                \* spc[r]: where request r stands with respect to its scope

storageVars == <<store, clientRouteState, responseHeaders, als, calls,
                 ncalls, spc>>

MaxCalls == 2

Reqs == {"A", "B"}
None == "none"
Placeholder == "placeholder"

NoRedirect == [url |-> None, status |-> 0, by |-> None]
EmptyState == [redirect |-> NoRedirect, revalidatePaths |-> <<>>]

\* createRouteStorage(context, responseHeaders): a fresh state, and an object
\* whose context, responseHeaders and closures refer to this request's.
createRouteStorage(r) == [context |-> r, responseHeaders |-> r, state |-> r]
NoStore == [context |-> None, responseHeaders |-> None, state |-> None]

\* getRouteCache(): outside a render, cache() memoizes nothing and every call
\* builds a new placeholder whose methods throw 'Not available'.
getRouteCacheMemoized ==
  IF \E q \in Reqs : store[q] # NoStore
  THEN CHOOSE q \in Reqs : store[q] # NoStore
  ELSE Placeholder

getRouteCache == Placeholder

\* routeStorage.getStore(): the store of the scope the caller runs in.
getStoreShared(r) ==
  IF \A q \in Reqs : als[q] = None THEN None
  ELSE als[CHOOSE q \in Reqs : als[q] # None]

getStore(r) == als[r]

\* getRouteContext(): routeStorage.getStore() ?? getRouteCache().
getRouteContext(r) == IF getStore(r) # None THEN getStore(r) ELSE getRouteCache

\* Object.assign(target, source) on the table of storage objects: a
\* placeholder is a fresh object nobody else holds.
ObjectAssign(objs, target, source) ==
  IF target = Placeholder THEN objs ELSE [objs EXCEPT ![target] = objs[source]]

InitStorage ==
  /\ store = [s \in Reqs |-> NoStore]
  /\ clientRouteState = [s \in Reqs |-> EmptyState]
  /\ responseHeaders = [s \in Reqs |-> <<>>]
  /\ als = [r \in Reqs |-> None]
  /\ calls = {}
  /\ ncalls = [r \in Reqs |-> 0]
  /\ spc = [r \in Reqs |-> "new"]

\* What an accessor call by r resolved to: the fields of the object found.
Call(r) ==
  LET o == getRouteContext(r) IN
  [by |-> r,
   context |-> IF o = Placeholder THEN Placeholder ELSE store[o].context,
   state |-> IF o = Placeholder THEN Placeholder ELSE store[o].state,
   headers |-> IF o = Placeholder THEN Placeholder
               ELSE store[o].responseHeaders]

\* The state after storage.redirect(url, options): status defaults to 303.
RedirectStatus(status) == IF status = None THEN "303" ELSE status

SetRedirect(crs, c, url, status, r) ==
  [crs EXCEPT ![c].redirect =
     [url |-> url, status |-> RedirectStatus(status), by |-> r]]

\* The state after storage.revalidatePath(path, type): push.
PushPath(crs, c, path, type, r) ==
  [crs EXCEPT ![c].revalidatePaths =
     Append(@, [path |-> path, type |-> type, by |-> r])]

\* The handler of request r creates its storage and enters its scope:
\* createRouteStorage, then runWithRouteStorage(storage, callback), which
\* copies the store over what getRouteCache() and getRouteContext() return and
\* runs the callback inside routeStorage.run(store, ...).
RunWithRouteStorage(r) ==
  LET created == [store EXCEPT ![r] = createRouteStorage(r)] IN
  /\ store' = ObjectAssign(ObjectAssign(created, getRouteCache, r),
                           getRouteContext(r), r)
  /\ responseHeaders' = [responseHeaders EXCEPT ![r] = <<>>]
  /\ als' = [als EXCEPT ![r] = r]

EnterScope(r) ==
  /\ RunWithRouteStorage(r)
  /\ clientRouteState' = [clientRouteState EXCEPT ![r] = EmptyState]

Enter(r) ==
  /\ spc[r] = "new"
  /\ EnterScope(r)
  /\ spc' = [spc EXCEPT ![r] = "scope"]
  /\ UNCHANGED <<calls, ncalls>>

\* An accessor call is made in r's call tree, inside its scope.
InScope(r) ==
  /\ spc[r] = "scope"
  /\ ncalls[r] < MaxCalls
  /\ getRouteContext(r) # Placeholder

Counted(r) ==
  /\ calls' = calls \cup {Call(r)}
  /\ ncalls' = [ncalls EXCEPT ![r] = @ + 1]

\* redirect(url, options).
Redirect(r, url, status) ==
  /\ InScope(r)
  /\ Counted(r)
  /\ clientRouteState' =
       SetRedirect(clientRouteState, store[getRouteContext(r)].state, url,
                   status, r)
  /\ UNCHANGED <<store, responseHeaders, als, spc>>

\* revalidatePath(path, type).
RevalidatePath(r, path, type) ==
  /\ InScope(r)
  /\ Counted(r)
  /\ clientRouteState' =
       PushPath(clientRouteState, store[getRouteContext(r)].state, path,
                type, r)
  /\ UNCHANGED <<store, responseHeaders, als, spc>>

\* cookies().set(name, value): setCookie on responseHeaders().
SetCookie(hdrs, h, name, value, r) ==
  [hdrs EXCEPT ![h] = Append(@, [name |-> name, value |-> value, by |-> r])]

CookieSet(r, name, value) ==
  /\ InScope(r)
  /\ Counted(r)
  /\ responseHeaders' =
       SetCookie(responseHeaders, store[getRouteContext(r)].responseHeaders,
                 name, value, r)
  /\ UNCHANGED <<store, clientRouteState, als, spc>>

\* context(), headers(), responseHeaders(): reads through the same lookup.
Read(r) ==
  /\ InScope(r)
  /\ Counted(r)
  /\ UNCHANGED <<store, clientRouteState, responseHeaders, als, spc>>

\* The callback of r has returned its response and its objects are dropped.
\* The slot then stands for a later request, whose async context holds no
\* store.
Leave(r) ==
  /\ spc[r] = "scope"
  /\ spc' = [spc EXCEPT ![r] = "new"]
  /\ als' = [als EXCEPT ![r] = None]
  /\ calls' = {c \in calls : c.by # r}
  /\ ncalls' = [ncalls EXCEPT ![r] = 0]
  /\ store' = [store EXCEPT ![r] = NoStore]
  /\ clientRouteState' = [clientRouteState EXCEPT ![r] = EmptyState]
  /\ responseHeaders' = [responseHeaders EXCEPT ![r] = <<>>]

RedirectUrls ==
  {"/next", "http://localhost/a?b#c", "https://other.example/"}
RedirectStatuses == {None, "307"}
RevalidatePaths == {"/", "/p"}

\* ------------------------------------------------ action endpoint, render
\* src/src/framework/entry.rsc.tsx. Request "A" is a request a client sent;
\* request "B" is the GET serverRedirect issues for "A" when it forwards a
\* same-origin redirect.
VARIABLES
  req,        \* req[r]: the request, or NoRequest
  apc,        \* apc[r]: where the handler of r stands
  processed,  \* processed[r]: what processAction(request) returned
  invoked,    \* invoked[r]: how many times an action was invoked for r
  settled,    \* settled[r]: how that invocation ended
  resp,       \* resp[r]: the response of the handler, or what it threw
  signal      \* the AbortController of serverRedirect's fetch for "A"

actionVars == <<req, apc, processed, invoked, settled, resp, signal>>

\* The x-rsc-action-id header: absent, empty, the id of a registered server
\* action, or an id loadServerAction does not know.
ActionIds == {None, "", "known", "unknown"}
\* The body: an encoded argument list (decodeReply accepts it), a form with
\* an action reference (decodeAction finds it), a form with fields and none,
\* a form without fields, or bytes neither formData() nor decodeReply reads.
Bodies == {"args", "actionForm", "plainForm", "emptyForm", "garbage"}
\* The Referer header: absent, not an absolute URL, or the URL of a page.
Referers == {None, "invalid", "http://localhost/p"}
\* The Accept header: absent, the RSC media type, text/html, or neither.
Accepts == {None, "text/x-component", "text/html", "*/*"}
Endpoints == {"actions", "render"}

NoRequest ==
  [endpoint |-> None, method |-> None, actionId |-> None, body |-> None,
   accept |-> None, referer |-> None, query |-> {}]

\* The ProcessedAction of processAction. keys are the properties the object
\* literal has; a property left undefined holds None (returnValue: Unset).
Unset == [set |-> FALSE, ok |-> FALSE, data |-> None]
NotProcessed ==
  [keys |-> {}, isAction |-> FALSE, returnValue |-> Unset, formState |-> None,
   actionStatus |-> None, temporaryReferences |-> None]

\* return { isAction: false }.
NotAction == [NotProcessed EXCEPT !.keys = {"isAction"}]

\* Case 1: try { data = await action.apply(null, args); returnValue =
\* { ok: true, data } } catch (e) { returnValue = { ok: false, data: e };
\* actionStatus = 500 }; return { isAction: true, returnValue, actionStatus,
\* temporaryReferences }.
FetchStyleResultUncaught(threw) ==
  [keys |-> {"isAction", "returnValue", "actionStatus", "temporaryReferences"},
   isAction |-> TRUE,
   returnValue |-> [set |-> TRUE, ok |-> TRUE,
                    data |-> IF threw THEN "e" ELSE "v"],
   formState |-> None,
   actionStatus |-> None,
   temporaryReferences |-> "refs"]

FetchStyleResult(threw) ==
  [keys |-> {"isAction", "returnValue", "actionStatus", "temporaryReferences"},
   isAction |-> TRUE,
   returnValue |-> [set |-> TRUE, ok |-> ~threw,
                    data |-> IF threw THEN "e" ELSE "v"],
   formState |-> None,
   actionStatus |-> IF threw THEN "500" ELSE None,
   temporaryReferences |-> "refs"]

\* Case 2: try { result = await decodedAction(); formState = await
\* decodeFormState(result, formData) } catch { actionStatus = 500 }; return
\* { isAction: true, formState, actionStatus, temporaryReferences }.
FormStyleResultKeepsState(threw, stateDecodes) ==
  [keys |-> {"isAction", "formState", "actionStatus", "temporaryReferences"},
   isAction |-> TRUE,
   returnValue |-> Unset,
   formState |-> IF threw THEN None ELSE "formState",
   actionStatus |-> IF threw \/ ~stateDecodes THEN "500" ELSE None,
   temporaryReferences |-> None]

FormStyleResult(threw, stateDecodes) ==
  [keys |-> {"isAction", "formState", "actionStatus", "temporaryReferences"},
   isAction |-> TRUE,
   returnValue |-> Unset,
   formState |-> IF threw \/ ~stateDecodes THEN None ELSE "formState",
   actionStatus |-> IF threw \/ ~stateDecodes THEN "500" ELSE None,
   temporaryReferences |-> None]

\* processAction up to its first await: not a POST, return { isAction: false };
\* a truthy action id, read the body (case 1); otherwise read the form (case 2).
ProcessStartIdFirst(q) ==
  IF q.actionId \notin {None, ""} THEN "readBody"
  ELSE IF q.method # "POST" THEN "notPost"
  ELSE "readForm"

ProcessStart(q) ==
  IF q.method # "POST" THEN "notPost"
  ELSE IF q.actionId \notin {None, ""} THEN "readBody"
  ELSE "readForm"

\* new URL(request.headers.get('referer') || '/').pathname: the URL
\* constructor throws on a string that is not an absolute URL, '/' included.
RefererThrows(q) == q.referer \in {None, "invalid"}
RefererPath(q) == "/p"

\* A response: status, what it carries and its Content-Type. A handler that
\* threw leaves what it threw instead: the TypeError of the URL constructor,
\* or the rejection of processAction, which the handler rethrows.
\* Its body is the stream or text of a request's handler, or empty; of its
\* headers the model keeps Location, X-Location, X-Status,
\* x-rsc-action-redirect-path, x-rsc-revalidate-paths and the Set-Cookie
\* entries in order. A header that is not set holds Absent.
EmptyBody == <<None, None>>
Absent == <<>>
Response(status, kind, ctype) ==
  [status |-> status, kind |-> kind, ctype |-> ctype, body |-> EmptyBody,
   location |-> Absent, xLocation |-> Absent, xStatus |-> None,
   redirectPath |-> Absent, revalidate |-> Absent, setCookie |-> <<>>]
NoResponse == Response(None, None, None)
InvalidUrl == Response(None, "TypeError: Invalid URL", None)
Rejected == Response(None, "rejected", None)

InitAction ==
  /\ req = [r \in Reqs |-> NoRequest]
  /\ apc = [r \in Reqs |-> "idle"]
  /\ processed = [r \in Reqs |-> NotProcessed]
  /\ invoked = [r \in Reqs |-> 0]
  /\ settled = [r \in Reqs |-> None]
  /\ resp = [r \in Reqs |-> NoResponse]
  /\ signal = "none"

\* A client request reaches the handler of an endpoint.
Arrive(ep, m, aid, body, acc, ref) ==
  /\ apc["A"] = "idle"
  /\ apc["B"] = "idle"
  /\ req' = [req EXCEPT !["A"] =
       [endpoint |-> ep, method |-> m, actionId |-> aid, body |-> body,
        accept |-> acc, referer |-> ref, query |-> {}]]
  /\ apc' = [apc EXCEPT !["A"] = "handler"]
  /\ UNCHANGED <<processed, invoked, settled, resp, signal, storageVars>>

\* A GET for a page with __rsc, __html or both in its query.
QueryFlags == {{"__rsc"}, {"__html"}, {"__rsc", "__html"}}

ArrivePage(acc, query) ==
  /\ apc["A"] = "idle"
  /\ apc["B"] = "idle"
  /\ req' = [req EXCEPT !["A"] =
       [endpoint |-> "render", method |-> "GET", actionId |-> None,
        body |-> None, accept |-> acc, referer |-> None, query |-> query]]
  /\ apc' = [apc EXCEPT !["A"] = "handler"]
  /\ UNCHANGED <<processed, invoked, settled, resp, signal, storageVars>>

\* The response, or the error, has left the handler; the objects of the
\* request are dropped and the next request finds nothing of it.
Depart ==
  /\ apc["A"] \in {"done", "failed"}
  /\ apc["B"] = "idle"
  /\ req' = [req EXCEPT !["A"] = NoRequest]
  /\ apc' = [apc EXCEPT !["A"] = "idle"]
  /\ processed' = [processed EXCEPT !["A"] = NotProcessed]
  /\ invoked' = [invoked EXCEPT !["A"] = 0]
  /\ settled' = [settled EXCEPT !["A"] = None]
  /\ resp' = [resp EXCEPT !["A"] = NoResponse]
  /\ signal' = "none"
  /\ spc' = [spc EXCEPT !["A"] = "new"]
  /\ als' = [als EXCEPT !["A"] = None]
  /\ ncalls' = [ncalls EXCEPT !["A"] = 0]
  /\ calls' = {c \in calls : c.by # "A"}
  /\ store' = [store EXCEPT !["A"] = NoStore]
  /\ clientRouteState' = [clientRouteState EXCEPT !["A"] = EmptyState]
  /\ responseHeaders' = [responseHeaders EXCEPT !["A"] = <<>>]

\* actions.handler / render(...) up to the first await of processAction:
\* createRouteStorage, runWithRouteStorage, on the action endpoint
\* revalidatePath(pathname of the Referer), then processAction(request).
HandlerEnter(r) ==
  /\ apc[r] = "handler"
  /\ UNCHANGED signal
  /\ RunWithRouteStorage(r)
  /\ spc' = [spc EXCEPT ![r] = "scope"]
  /\ UNCHANGED <<calls, ncalls, req, invoked, settled>>
  /\ IF req[r].endpoint = "actions" /\ RefererThrows(req[r])
     THEN /\ apc' = [apc EXCEPT ![r] = "failed"]
          /\ resp' = [resp EXCEPT ![r] = InvalidUrl]
          /\ clientRouteState' = [clientRouteState EXCEPT ![r] = EmptyState]
          /\ UNCHANGED processed
     ELSE /\ clientRouteState' =
               IF req[r].endpoint = "actions"
               THEN PushPath([clientRouteState EXCEPT ![r] = EmptyState], r,
                             RefererPath(req[r]), None, r)
               ELSE [clientRouteState EXCEPT ![r] = EmptyState]
          /\ IF ProcessStart(req[r]) = "notPost"
             THEN /\ processed' = [processed EXCEPT ![r] = NotAction]
                  /\ apc' = [apc EXCEPT ![r] = "assemble"]
             ELSE /\ apc' = [apc EXCEPT ![r] = ProcessStart(req[r])]
                  /\ UNCHANGED processed
          /\ UNCHANGED resp

\* Case 1 up to the invocation: the body is read, decodeReply decodes the
\* arguments, loadServerAction resolves the id, action.apply is called. A
\* failure of one of the three rejects processAction; the handler logs it and
\* rethrows.
ReplyDecodes(q) == q.body = "args"
ActionResolvesAlways(q) == TRUE

ActionResolves(q) == q.actionId = "known"

ReadBody(r) ==
  /\ apc[r] = "readBody"
  /\ UNCHANGED signal
  /\ IF ReplyDecodes(req[r]) /\ ActionResolves(req[r])
     THEN /\ apc' = [apc EXCEPT ![r] = "inAction"]
          /\ invoked' = [invoked EXCEPT ![r] = @ + 1]
          /\ UNCHANGED resp
     ELSE /\ apc' = [apc EXCEPT ![r] = "failed"]
          /\ resp' = [resp EXCEPT ![r] = Rejected]
          /\ UNCHANGED invoked
  /\ UNCHANGED <<req, processed, settled, storageVars>>

\* Case 1, the action settles.
ActionSettles(r, threw) ==
  /\ apc[r] = "inAction"
  /\ UNCHANGED signal
  /\ settled' = [settled EXCEPT ![r] = IF threw THEN "threw" ELSE "returned"]
  /\ processed' = [processed EXCEPT ![r] = FetchStyleResult(threw)]
  /\ apc' = [apc EXCEPT ![r] = "assemble"]
  /\ UNCHANGED <<req, invoked, resp, storageVars>>

\* Case 2 up to the invocation: request.clone().formData(), decodeAction.
FormParses(q) == q.body \in {"actionForm", "plainForm", "emptyForm"}
DecodeActionFindsAlways(q) == TRUE

DecodeActionFinds(q) == q.body = "actionForm"

ReadForm(r) ==
  /\ apc[r] = "readForm"
  /\ UNCHANGED signal
  /\ IF ~FormParses(req[r])
     THEN /\ apc' = [apc EXCEPT ![r] = "failed"]
          /\ resp' = [resp EXCEPT ![r] = Rejected]
          /\ UNCHANGED <<invoked, processed>>
     ELSE IF ~DecodeActionFinds(req[r])
     THEN /\ processed' = [processed EXCEPT ![r] = NotAction]
          /\ apc' = [apc EXCEPT ![r] = "assemble"]
          /\ UNCHANGED <<invoked, resp>>
     ELSE /\ apc' = [apc EXCEPT ![r] = "inFormAction"]
          /\ invoked' = [invoked EXCEPT ![r] = @ + 1]
          /\ UNCHANGED <<processed, resp>>
  /\ UNCHANGED <<req, settled, storageVars>>

\* Case 2, the action settles and decodeFormState decodes its result, or not.
FormActionSettles(r, threw, stateDecodes) ==
  /\ apc[r] = "inFormAction"
  /\ UNCHANGED signal
  /\ settled' = [settled EXCEPT ![r] =
       IF threw THEN "threw"
       ELSE IF stateDecodes THEN "returned" ELSE "decodeFormState threw"]
  /\ processed' = [processed EXCEPT ![r] = FormStyleResult(threw, stateDecodes)]
  /\ apc' = [apc EXCEPT ![r] = "assemble"]
  /\ UNCHANGED <<req, invoked, resp, storageVars>>

\* The action body calls the ambient accessors while it runs.
InAction(r) == apc[r] \in {"inAction", "inFormAction"}

ActionRedirects(r, url, status) ==
  InAction(r) /\ Redirect(r, url, status) /\ UNCHANGED actionVars
ActionRevalidates(r, path) ==
  InAction(r) /\ RevalidatePath(r, path, None) /\ UNCHANGED actionVars
ActionSetsCookie(r) ==
  InAction(r) /\ CookieSet(r, "datetime", "v") /\ UNCHANGED actionVars

\* storage.getCurrentClientRouteState().redirect, truthy or not.
RedirectPendingUnlessThrew(r) ==
  clientRouteState[r].redirect.url # None /\ processed[r].actionStatus = None

RedirectPending(r) == clientRouteState[r].redirect.url # None

\* serverRedirect: the URL resolved against the request's and its origin
\* compared with the request's; Accept includes text/x-component.
\* new URL(url, context.request.url): origin and the rest of the href.
Origin == "http://localhost"
Resolve(url) ==
  IF url = "https://other.example/"
  THEN [origin |-> "https://other.example", rest |-> "/"]
  ELSE IF url = "http://localhost/a?b#c"
  THEN [origin |-> Origin, rest |-> "/a?b#c"]
  ELSE [origin |-> Origin, rest |-> url]
\* url.href, as the origin followed by the rest.
Href(u) == <<u.origin, u.rest>>
\* url.href.replace(url.origin, ''): the first occurrence is removed.
StripNothing(u) == Href(u)

StripOrigin(u) ==
  LET h == Href(u)
      first == CHOOSE k \in 1..Len(h) :
                 h[k] = u.origin /\ \A j \in 1..(k - 1) : h[j] # u.origin
  IN [k \in 1..(Len(h) - 1) |-> IF k < first THEN h[k] ELSE h[k + 1]]

IsCrossOriginNever(url) == FALSE

IsCrossOrigin(url) == Resolve(url).origin # Origin
AcceptRSCAlways(q) == TRUE

AcceptRSC(q) == q.accept = "text/x-component"

\* render: the request asks for the RSC payload when Accept does not include
\* text/html and the query has no __html, or when the query has __rsc.
IsRscRequestByAccept(q) == q.accept # "text/html"

IsRscRequest(q) ==
  \/ q.accept # "text/html" /\ "__html" \notin q.query
  \/ "__rsc" \in q.query

\* serverRedirect past the proxied fetch, and all of it when nothing is
\* fetched: X-Location and X-Status on a default response when the target is
\* on another origin, else Location with the redirect's status.
RedirectResponse(r) ==
  LET redirect == clientRouteState[r].redirect
      url == Resolve(redirect.url)
  IN IF IsCrossOrigin(redirect.url)
     THEN [Response("200", "X-Location", None) EXCEPT
             !.xLocation = Href(url), !.xStatus = redirect.status,
             !.setCookie = responseHeaders[r]]
     ELSE [Response(redirect.status, "Location", None) EXCEPT
             !.location = Href(url), !.setCookie = responseHeaders[r]]

\* JSON.stringify(clientRouteState.revalidatePaths).
Json(paths) ==
  [k \in 1..Len(paths) |-> [path |-> paths[k].path, type |-> paths[k].type]]

\* response?.headers.get('content-type')?.startsWith('text/x-component').
IsRSCAny(response) == response.status # None

IsRSC(response) == response.ctype = "text/x-component"

\* serverRedirect on an RSC answer of the proxied fetch: the answer's headers
\* without Set-Cookie, x-rsc-revalidate-paths when there are paths, the
\* Set-Cookie entries of the pending headers and of the answer appended one
\* by one by setCookie, x-rsc-action-redirect-path, the answer's body, 200.
ForwardedResponse(r, response) ==
  LET state == clientRouteState[r]
      url == Resolve(state.redirect.url)
  IN [Response("200", "forwarded", response.ctype) EXCEPT
        !.body = response.body,
        !.location = response.location,
        !.xLocation = response.xLocation,
        !.xStatus = response.xStatus,
        !.revalidate = IF Len(state.revalidatePaths) > 0
                       THEN Json(state.revalidatePaths)
                       ELSE response.revalidate,
        !.setCookie = responseHeaders[r] \o response.setCookie,
        !.redirectPath = StripOrigin(url)]

\* The request serverRedirect fetches: a GET with the headers of the
\* request merged with the response's, without x-rsc-action-id.
Forwarded(q, ep) ==
  [endpoint |-> ep, method |-> "GET", actionId |-> None, body |-> None,
   accept |-> q.accept, referer |-> q.referer, query |-> {}]

\* What the handler answers once processAction has returned: the action
\* endpoint refuses what is no action with 400, both endpoints hand a pending
\* redirect to serverRedirect, the action endpoint sends the payload of the
\* action's result and render the page as RSC payload or as HTML.
RefusesNothing(r) == FALSE

Refuses(r) == req[r].endpoint = "actions" /\ ~processed[r].isAction

Answer(r) ==
  IF Refuses(r)
  THEN [Response("400", "This endpoint only accepts RSC actions.",
                 "text/plain") EXCEPT !.body = <<r, "text">>]
  ELSE IF RedirectPending(r) THEN RedirectResponse(r)
  ELSE IF req[r].endpoint = "actions" \/ IsRscRequest(req[r])
  THEN [Response("200", "payload", "text/x-component") EXCEPT
          !.body = <<r, "payload">>, !.setCookie = responseHeaders[r]]
  ELSE [Response("ssr", "html", "text/html") EXCEPT
          !.body = <<r, "html">>, !.setCookie = responseHeaders[r]]

Proxies(r) ==
  /\ ~Refuses(r)
  /\ RedirectPending(r)
  /\ AcceptRSC(req[r])
  /\ ~IsCrossOrigin(clientRouteState[r].redirect.url)

Assemble(r) ==
  /\ apc[r] = "assemble"
  /\ ~Proxies(r)
  /\ UNCHANGED signal
  /\ resp' = [resp EXCEPT ![r] = Answer(r)]
  /\ apc' = [apc EXCEPT ![r] = "done"]
  /\ UNCHANGED <<req, processed, invoked, settled, storageVars>>

\* serverRedirect fetches the redirect target: the request reaches one of
\* the two handlers of this server.
ProxyFetch(ep) ==
  /\ apc["A"] = "assemble"
  /\ Proxies("A")
  /\ apc["B"] = "idle"
  /\ req' = [req EXCEPT !["B"] = Forwarded(req["A"], ep)]
  /\ apc' = [apc EXCEPT !["A"] = "proxying", !["B"] = "handler"]
  /\ signal' = "armed"
  /\ UNCHANGED <<processed, invoked, settled, resp, storageVars>>

\* ... or the fetch fails and the catch leaves response undefined, or
\* something else at the target answers: with a page that is no RSC payload,
\* or with an RSC payload and a Set-Cookie of its own.
ProxiedAnswers == {"failed", "html", "payload"}
ProxiedAnswer(answer) ==
  IF answer = "failed" THEN NoResponse
  ELSE IF answer = "html"
  THEN [Response("200", "html", "text/html") EXCEPT !.body = <<"B", "html">>]
  ELSE [Response("200", "payload", "text/x-component") EXCEPT
          !.body = <<"B", "payload">>,
          !.setCookie = <<[name |-> "datetime", value |-> "w", by |-> "B"]>>]

ProxyElsewhere(answer) ==
  /\ apc["A"] = "assemble"
  /\ Proxies("A")
  /\ apc["B"] = "idle"
  /\ req' = [req EXCEPT !["B"] = Forwarded(req["A"], None)]
  /\ apc' = [apc EXCEPT !["A"] = "proxying", !["B"] = "done"]
  /\ signal' = "armed"
  /\ resp' = [resp EXCEPT !["B"] = ProxiedAnswer(answer)]
  /\ UNCHANGED <<processed, invoked, settled, storageVars>>

\* controller.abort() is reached when the RSC branch did not return.
AbortsAlways(response) == TRUE

Aborts(response) == ~IsRSC(response)

\* The fetch settles. An RSC payload is forwarded with status 200 and the
\* x-rsc-redirect header; anything else aborts the fetch and falls back to
\* the Location redirect. The proxied request is over.
ProxyReturn ==
  /\ apc["A"] = "proxying"
  /\ apc["B"] \in {"done", "failed"}
  /\ signal' = IF Aborts(resp["B"]) THEN "aborted" ELSE signal
  /\ resp' = [resp EXCEPT
       !["A"] = IF IsRSC(resp["B"])
                THEN ForwardedResponse("A", resp["B"])
                ELSE RedirectResponse("A"),
       !["B"] = NoResponse]
  /\ apc' = [apc EXCEPT !["A"] = "done", !["B"] = "idle"]
  /\ req' = [req EXCEPT !["B"] = NoRequest]
  /\ processed' = [processed EXCEPT !["B"] = NotProcessed]
  /\ invoked' = [invoked EXCEPT !["B"] = 0]
  /\ settled' = [settled EXCEPT !["B"] = None]
  /\ spc' = [spc EXCEPT !["B"] = "new"]
  /\ als' = [als EXCEPT !["B"] = None]
  /\ calls' = {c \in calls : c.by # "B"}
  /\ ncalls' = [ncalls EXCEPT !["B"] = 0]
  /\ store' = [store EXCEPT !["B"] = NoStore]
  /\ clientRouteState' = [clientRouteState EXCEPT !["B"] = EmptyState]
  /\ responseHeaders' = [responseHeaders EXCEPT !["B"] = <<>>]

\* ------------------------------------------------------------ mergeHeaders
\* src/src/framework/entry.rsc.tsx, mergeHeaders(...sources). A source is the
\* list of its headers <<key, value>>; the value of a Cookie header is its
\* list of name=value pairs, the value of a Set-Cookie header is one pair.
VARIABLES
  sources,   \* the sources handed to mergeHeaders, in order
  merged,    \* mergeHeaders(...sources)
  forwarded  \* the headers serverRedirect last built for its fetch

mergeVars == <<sources, merged, forwarded>>

MaxSources == 3

HeaderSources ==
  { << <<"cookie", << <<"a", "1">>, <<"b", "2">> >> >> >>,
    << <<"cookie", << <<"a", "1">> >> >> >>,
    << <<"set-cookie", <<"b", "3">> >> >>,
    << <<"set-cookie", <<"a", "">> >> >>,
    << <<"set-cookie", <<"a", "4">> >>, <<"x-trace", "t2">> >>,
    << <<"cookie", << <<"a", "">> >> >>, <<"accept", "text/html">> >>,
    << <<"x-trace", "t1">> >> }

\* Map.prototype.set on the list of entries in insertion order: an existing
\* key keeps its place, a new one goes last.
MapSetFirstWins(m, name, value) ==
  IF \E k \in 1..Len(m) : m[k][1] = name THEN m
  ELSE Append(m, <<name, value>>)

MapSet(m, name, value) ==
  IF \E k \in 1..Len(m) : m[k][1] = name
  THEN [k \in 1..Len(m) |-> IF m[k][1] = name THEN <<name, value>> ELSE m[k]]
  ELSE Append(m, <<name, value>>)

\* Map.prototype.delete.
MapDelete(m, name) == SelectSeq(m, LAMBDA e : e[1] # name)

RECURSIVE SetEach(_, _)
SetEach(m, pairs) ==
  IF pairs = <<>> THEN m
  ELSE SetEach(MapSet(m, Head(pairs)[1], Head(pairs)[2]), Tail(pairs))

\* getCookies(headers): the pairs of the Cookie header as an object.
getCookies(headers) ==
  LET found == SelectSeq(headers, LAMBDA h : h[1] = "cookie")
  IN IF found = <<>> THEN <<>> ELSE SetEach(<<>>, found[1][2])

\* getSetCookies(headers): one cookie for each Set-Cookie header.
getSetCookies(headers) ==
  LET found == SelectSeq(headers, LAMBDA h : h[1] = "set-cookie")
  IN [k \in 1..Len(found) |-> found[k][2]]

\* Step 2: an empty value deletes the name, another value sets it.
SetCookieSkipsEmpty(m, cookie) ==
  IF cookie[2] = "" THEN m ELSE MapSet(m, cookie[1], cookie[2])

SetCookieApplied(m, cookie) ==
  IF cookie[2] = "" THEN MapDelete(m, cookie[1])
  ELSE MapSet(m, cookie[1], cookie[2])

RECURSIVE ApplySetCookies(_, _)
ApplySetCookies(m, cookies) ==
  IF cookies = <<>> THEN m
  ELSE ApplySetCookies(SetCookieApplied(m, Head(cookies)), Tail(cookies))

\* Step 3: every header but Cookie and Set-Cookie is appended.
SkippedNone(key) == FALSE

Skipped(key) == key \in {"cookie", "set-cookie"}

OtherHeaders(headers) == SelectSeq(headers, LAMBDA h : ~Skipped(h[1]))

\* Steps 1 to 3 over the sources: the cookie map and the result so far.
RECURSIVE MergeEach(_, _, _)
MergeEach(cookies, result, rest) ==
  IF rest = <<>> THEN [cookies |-> cookies, result |-> result]
  ELSE LET headers == Head(rest)
       IN MergeEach(
            ApplySetCookies(SetEach(cookies, getCookies(headers)),
                            getSetCookies(headers)),
            result \o OtherHeaders(headers),
            Tail(rest))

\* Steps 4 and 5: the entries with a non-empty value make the Cookie header,
\* which is set only when there are some.
mergeHeaders(srcs) ==
  LET done == MergeEach(<<>>, <<>>, srcs)
      cookieString == SelectSeq(done.cookies, LAMBDA e : e[2] # "")
  IN IF cookieString = <<>> THEN done.result
     ELSE Append(SelectSeq(done.result, LAMBDA h : h[1] # "cookie"),
                 <<"cookie", cookieString>>)

\* serverRedirect: the headers of the GET it fetches the redirect target
\* with. The headers of the request that carried the action, and the pending
\* response headers of its storage.
RSC_ACTION_HEADER == "x-rsc-action-id"

RequestHeaders ==
  { << <<"accept", "text/x-component">>,
       <<"cookie", << <<"a", "1">>, <<"b", "2">> >> >>,
       <<"x-rsc-action-id", "known">> >>,
    << <<"accept", "text/x-component">>,
       <<"cookie", << <<"a", "1">> >> >>,
       <<"transfer-encoding", "chunked">>,
       <<"x-rsc-action-id", "known">> >>,
    << <<"accept", "text/x-component">>,
       <<"x-rsc-action-id", "known">> >>,
    << <<"accept", "text/x-component">>,
       <<"content-type", "multipart/form-data">>,
       <<"cookie", << <<"b", "2">> >> >> >> }

PendingHeaders ==
  { <<>>,
    << <<"set-cookie", <<"a", "9">> >> >>,
    << <<"set-cookie", <<"a", "">> >> >>,
    << <<"set-cookie", <<"c", "3">> >>, <<"set-cookie", <<"a", "9">> >> >>,
    << <<"set-cookie", <<"b", "">> >>, <<"x-trace", "t1">> >> }

\* Headers.prototype.delete(name).
HeadersDeleteNothing(headers, name) == headers

HeadersDelete(headers, name) == SelectSeq(headers, LAMBDA h : h[1] # name)

forwardedHeaders(asked, pending) ==
  HeadersDelete(HeadersDelete(mergeHeaders(<<asked, pending>>),
                              "transfer-encoding"),
                RSC_ACTION_HEADER)

NotForwarded == [called |-> FALSE, request |-> <<>>, pending |-> <<>>,
                 headers |-> <<>>]

InitMerge ==
  /\ sources = <<>>
  /\ merged = mergeHeaders(<<>>)
  /\ forwarded = NotForwarded

\* One more source is handed over and the merge is taken.
AddSource(headers) ==
  /\ Len(sources) < MaxSources
  /\ sources' = Append(sources, headers)
  /\ merged' = mergeHeaders(Append(sources, headers))
  /\ UNCHANGED forwarded

\* serverRedirect builds the headers of its fetch.
ForwardHeaders(asked, pending) ==
  /\ forwarded' = [called |-> TRUE, request |-> asked, pending |-> pending,
                   headers |-> forwardedHeaders(asked, pending)]
  /\ UNCHANGED <<sources, merged>>

\* ------------------------------------------------------ client route state
\* lib/context.ts, createRouteStorage: the ClientRouteState one RouteStorage
\* closes over, and the snapshots getCurrentClientRouteState hands out. The
\* objects live in four tables, one per kind, and refer to each other by
\* their index: a state object holds a reference to its redirect object (or
\* undefined) and to its array, an array holds references to its entries.
VARIABLES
  states,       \* states[i]: [redirect |-> ref, revalidatePaths |-> ref]
  redirects,    \* redirects[i]: [url, status]
  arrays,       \* arrays[i]: the references an array holds, in order
  entries,      \* entries[i]: [path, type]
  snapshots,    \* the state objects getCurrentClientRouteState returned
  lastRedirect, \* history: the arguments of the last redirect call
  pathCalls,    \* history: the arguments of the revalidatePath calls
  op,           \* history: the last operation
  nops          \* operations so far

heapVars == <<states, redirects, arrays, entries, snapshots, lastRedirect,
              pathCalls, op, nops>>

MaxOps == 4
MaxSnapshots == 2

Undefined == 0
NoCall == [url |-> None, status |-> None]
PathTypes == {None, "layout"}

\* const currentClientRouteState = { redirect: undefined, revalidatePaths: [] }
currentClientRouteState == 1

InitHeap ==
  /\ states = << [redirect |-> Undefined, revalidatePaths |-> 1] >>
  /\ redirects = <<>>
  /\ arrays = << <<>> >>
  /\ entries = <<>>
  /\ snapshots = <<>>
  /\ lastRedirect = NoCall
  /\ pathCalls = <<>>
  /\ op = [kind |-> None, target |-> 0]
  /\ nops = 0

\* currentClientRouteState.redirect = { url, status: options?.status ?? 303 }:
\* a new object takes the place of the field's value.
AssignRedirectOnce(heap, url, status) ==
  IF heap.states[currentClientRouteState].redirect # Undefined THEN heap
  ELSE [heap EXCEPT
          !.redirects = Append(@, [url |-> url,
                                   status |-> RedirectStatus(status)]),
          !.states[currentClientRouteState].redirect =
            Len(heap.redirects) + 1]

AssignRedirectClears(heap, url, status) ==
  IF heap.states[currentClientRouteState].redirect = Undefined
  THEN [heap EXCEPT
          !.redirects = Append(@, [url |-> url,
                                   status |-> RedirectStatus(status)]),
          !.states[currentClientRouteState].redirect =
            Len(heap.redirects) + 1]
  ELSE [heap EXCEPT !.states[currentClientRouteState].redirect = Undefined]

AssignRedirect(heap, url, status) ==
  [heap EXCEPT
     !.redirects = Append(@, [url |-> url,
                              status |-> RedirectStatus(status)]),
     !.states[currentClientRouteState].redirect = Len(heap.redirects) + 1]

\* currentClientRouteState.revalidatePaths.push({ path, type }).
PushEntryUnique(heap, path, type) ==
  LET array == heap.states[currentClientRouteState].revalidatePaths IN
  IF \E k \in 1..Len(heap.arrays[array]) :
       heap.entries[heap.arrays[array][k]] = [path |-> path, type |-> type]
  THEN heap
  ELSE [heap EXCEPT
          !.entries = Append(@, [path |-> path, type |-> type]),
          !.arrays[array] = Append(@, Len(heap.entries) + 1)]

PushEntry(heap, path, type) ==
  LET array == heap.states[currentClientRouteState].revalidatePaths IN
  [heap EXCEPT
     !.entries = Append(@, [path |-> path, type |-> type]),
     !.arrays[array] = Append(@, Len(heap.entries) + 1)]

\* structuredClone(value): a new state object whose redirect object, array
\* and entries are new objects too, holding the same values.
structuredCloneShallow(heap, state) ==
  [heap EXCEPT !.states = Append(@, heap.states[state])]

structuredClone(heap, state) ==
  LET s == heap.states[state]
      items == heap.arrays[s.revalidatePaths]
      cloned == [k \in 1..Len(items) |-> heap.entries[items[k]]]
      refs == [k \in 1..Len(items) |-> Len(heap.entries) + k]
  IN [states |->
        Append(heap.states,
               [redirect |-> IF s.redirect = Undefined THEN Undefined
                             ELSE Len(heap.redirects) + 1,
                revalidatePaths |-> Len(heap.arrays) + 1]),
      redirects |->
        IF s.redirect = Undefined THEN heap.redirects
        ELSE Append(heap.redirects, heap.redirects[s.redirect]),
      arrays |-> Append(heap.arrays, refs),
      entries |-> heap.entries \o cloned]

Heap ==
  [states |-> states, redirects |-> redirects, arrays |-> arrays,
   entries |-> entries]

Becomes(heap) ==
  /\ states' = heap.states
  /\ redirects' = heap.redirects
  /\ arrays' = heap.arrays
  /\ entries' = heap.entries

Op(kind, target) ==
  /\ nops < MaxOps
  /\ nops' = nops + 1
  /\ op' = [kind |-> kind, target |-> target]

\* storage.redirect(url, options).
StorageRedirect(url, status) ==
  /\ Op("redirect", 0)
  /\ Becomes(AssignRedirect(Heap, url, status))
  /\ lastRedirect' = [url |-> url, status |-> status]
  /\ UNCHANGED <<snapshots, pathCalls>>

\* storage.revalidatePath(path, type).
StorageRevalidatePath(path, type) ==
  /\ Op("revalidatePath", 0)
  /\ Becomes(PushEntry(Heap, path, type))
  /\ pathCalls' = Append(pathCalls, [path |-> path, type |-> type])
  /\ UNCHANGED <<snapshots, lastRedirect>>

\* storage.getCurrentClientRouteState().
GetCurrentClientRouteState ==
  /\ Len(snapshots) < MaxSnapshots
  /\ Op("snapshot", Len(snapshots) + 1)
  /\ Becomes(structuredClone(Heap, currentClientRouteState))
  /\ snapshots' = Append(snapshots, Len(states) + 1)
  /\ UNCHANGED <<lastRedirect, pathCalls>>

\* What the caller of getCurrentClientRouteState does to the object it got.
\* snapshot.redirect = { url: '/changed', status: 302 }, or = undefined
ReplaceRedirect(k, defined) ==
  /\ k \in 1..Len(snapshots)
  /\ Op("mutate", k)
  /\ redirects' = IF defined
                  THEN Append(redirects, [url |-> "/changed", status |-> "302"])
                  ELSE redirects
  /\ states' = [states EXCEPT
                  ![snapshots[k]].redirect =
                    IF defined THEN Len(redirects) + 1 ELSE Undefined]
  /\ UNCHANGED <<arrays, entries, snapshots, lastRedirect, pathCalls>>

\* snapshot.redirect.url = '/changed'
EditRedirect(k) ==
  /\ k \in 1..Len(snapshots)
  /\ states[snapshots[k]].redirect # Undefined
  /\ Op("mutate", k)
  /\ redirects' = [redirects EXCEPT
                     ![states[snapshots[k]].redirect].url = "/changed"]
  /\ UNCHANGED <<states, arrays, entries, snapshots, lastRedirect, pathCalls>>

\* snapshot.revalidatePaths.push({ path: '/changed' })
PushToSnapshot(k) ==
  /\ k \in 1..Len(snapshots)
  /\ Op("mutate", k)
  /\ entries' = Append(entries, [path |-> "/changed", type |-> None])
  /\ arrays' = [arrays EXCEPT
                  ![states[snapshots[k]].revalidatePaths] =
                    Append(@, Len(entries) + 1)]
  /\ UNCHANGED <<states, redirects, snapshots, lastRedirect, pathCalls>>

\* snapshot.revalidatePaths[0].path = '/changed'
EditEntry(k) ==
  /\ k \in 1..Len(snapshots)
  /\ arrays[states[snapshots[k]].revalidatePaths] # <<>>
  /\ Op("mutate", k)
  /\ entries' = [entries EXCEPT
                   ![arrays[states[snapshots[k]].revalidatePaths][1]].path =
                     "/changed"]
  /\ UNCHANGED <<states, redirects, arrays, snapshots, lastRedirect, pathCalls>>

\* ------------------------------------------------- accessors outside a scope
\* lib/context.ts, redirect and revalidatePath called where no
\* runWithRouteStorage scope is active: getRouteContext() finds no store and
\* falls back to getRouteCache(), whose methods throw.
VARIABLES
  outside,   \* history: the outcome of the last call made outside a scope
  departed   \* history: some request has entered its scope and left it

outsideVars == <<outside, departed>>

MaxOutside == 2

InitOutside ==
  /\ outside = [n |-> 0, by |-> None, error |-> None, after |-> FALSE]
  /\ departed = FALSE

\* throwErr('Not available'): what calling a method of the object found
\* raises, if anything.
Raises(o) == IF o = Placeholder THEN "Not available" ELSE None

Outcome(r) ==
  /\ spc[r] = "new"
  /\ outside.n < MaxOutside
  /\ outside' = [n |-> outside.n + 1, by |-> r,
                 error |-> Raises(getRouteContext(r)), after |-> departed]
  /\ UNCHANGED <<store, responseHeaders, als, calls, ncalls, spc, departed>>

\* redirect(url, options), the caller being in no scope.
RedirectOutside(r, url, status) ==
  /\ Outcome(r)
  /\ clientRouteState' =
       IF Raises(getRouteContext(r)) # None THEN clientRouteState
       ELSE SetRedirect(clientRouteState, store[getRouteContext(r)].state,
                        url, status, r)

\* revalidatePath(path, type), the caller being in no scope.
RevalidatePathOutside(r, path, type) ==
  /\ Outcome(r)
  /\ clientRouteState' =
       IF Raises(getRouteContext(r)) # None THEN clientRouteState
       ELSE PushPath(clientRouteState, store[getRouteContext(r)].state,
                     path, type, r)

\* --------------------------------------------------------- response helpers
\* main.ts, createResponse and the json, text and html helpers of a route's
\* Context. A Headers object is its list of <<name, values>> entries, names
\* in lower case, in the order they were appended; the values of an entry are
\* a list so that combining entries of one name is concatenation.
VARIABLES
  helperCall,      \* the helper called last, with its arguments
  helperResponse,  \* the Response it returned
  partialCall,     \* the last call of a helper of a partial context
  partialResponse  \* the Response it returned

helperVars == <<helperCall, helperResponse, partialCall, partialResponse>>

Helpers == {"json", "text", "html"}
Datas == {"hello", "<p>"}
StatusCodes == {201, 404}

\* The header collections a caller supplies, as lists of [name, value] pairs.
SuppliedHeaders ==
  { <<>>,
    << <<"X-A", "1">> >>,
    << <<"Content-Type", "text/csv">> >>,
    << <<"X-A", "1">>, <<"Content-Type", "text/csv">> >>,
    << <<"Set-Cookie", "a=1">>, <<"Set-Cookie", "b=2">> >>,
    << <<"Set-Cookie", "a=1">>, <<"X-A", "1">> >> }

\* Header names are byte-lowercased by Headers.
Lower(name) ==
  CASE name = "Content-Type" -> "content-type"
    [] name = "Set-Cookie" -> "set-cookie"
    [] name = "X-A" -> "x-a"
    [] OTHER -> name

\* The names in use, sorted.
SortedNames == <<"content-type", "set-cookie", "x-a">>

\* headers.append(name, value).
HeadersAppend(h, name, value) == Append(h, <<Lower(name), <<value>>>>)

\* new Headers(init): every pair of init appended.
RECURSIVE NewHeaders(_)
NewHeaders(init) ==
  IF init = <<>> THEN <<>>
  ELSE HeadersAppend(NewHeaders(SubSeq(init, 1, Len(init) - 1)),
                     init[Len(init)][1], init[Len(init)][2])

HasHeader(h, name) == \E k \in 1..Len(h) : h[k][1] = Lower(name)

\* headers.set(name, value): the first entry of that name takes the value and
\* the others are removed; without one, the entry is appended. The value is
\* given as the list of the values it combines.
HeadersSetAppends(h, name, value) == Append(h, <<Lower(name), value>>)

HeadersSet(h, name, value) ==
  IF HasHeader(h, name)
  THEN LET first == CHOOSE k \in 1..Len(h) :
                      /\ h[k][1] = Lower(name)
                      /\ \A j \in 1..(k - 1) : h[j][1] # Lower(name)
           keep(k) == k = first \/ h[k][1] # Lower(name)
           kept == SelectSeq([k \in 1..Len(h) |-> <<k, h[k]>>],
                             LAMBDA e : keep(e[1]))
       IN [k \in 1..Len(kept) |->
             IF kept[k][1] = first THEN <<Lower(name), value>>
             ELSE kept[k][2]]
  ELSE Append(h, <<Lower(name), value>>)

\* The values of the entries of a name, in order.
RECURSIVE ValuesOf(_, _)
ValuesOf(h, name) ==
  IF h = <<>> THEN <<>>
  ELSE IF Head(h)[1] = name THEN Head(h)[2] \o ValuesOf(Tail(h), name)
  ELSE ValuesOf(Tail(h), name)

\* What iterating a Headers object yields (forEach): the names sorted, the
\* entries of one name combined into one, except those of set-cookie, which
\* are yielded one by one.
RECURSIVE Iterate(_, _)
Iterate(h, names) ==
  IF names = <<>> THEN <<>>
  ELSE LET name == Head(names)
           values == ValuesOf(h, name)
           own == IF values = <<>> THEN <<>>
                  ELSE IF name = "set-cookie"
                  THEN [k \in 1..Len(values) |-> <<name, <<values[k]>>>>]
                  ELSE << <<name, values>> >>
       IN own \o Iterate(h, Tail(names))

\* argHeaders.forEach((value, key) => finalHeaders.set(key, value)).
RECURSIVE SetAll(_, _)
SetAll(h, yielded) ==
  IF yielded = <<>> THEN h
  ELSE SetAll(HeadersSet(h, Head(yielded)[1], Head(yielded)[2]),
              Tail(yielded))

\* The arguments of createResponse: arg is undefined, a number or a
\* ResponseInit; headers is undefined or a collection.
Undef == [tag |-> "undefined", status |-> 0, hasStatus |-> FALSE,
          hasHeaders |-> FALSE, headers |-> <<>>]
Number(n) == [Undef EXCEPT !.tag = "number", !.status = n]
ResponseInit(hasStatus, n, hasHeaders, hs) ==
  [tag |-> "init", status |-> IF hasStatus THEN n ELSE 0,
   hasStatus |-> hasStatus, hasHeaders |-> hasHeaders,
   headers |-> IF hasHeaders THEN hs ELSE <<>>]
NoHeaders == [given |-> FALSE, list |-> <<>>]
Given(hs) == [given |-> TRUE, list |-> hs]

\* createResponse(content, arg, headers, contentType).
createResponse(content, arg, headers, contentType) ==
  LET fromParam == IF headers.given THEN NewHeaders(headers.list) ELSE <<>>
      status == CASE arg.tag = "number" -> arg.status
                  [] arg.tag = "init" /\ arg.hasStatus -> arg.status
                  [] OTHER -> 200
      fromArg == IF arg.tag = "init" /\ arg.hasHeaders
                 THEN SetAll(fromParam,
                             Iterate(NewHeaders(arg.headers), SortedNames))
                 ELSE fromParam
      finalHeaders == IF contentType # ""
                      THEN HeadersSet(fromArg, "Content-Type",
                                      <<contentType>>)
                      ELSE fromArg
  IN [status |-> status, headers |-> finalHeaders, body |-> content]

\* JSON.stringify(data).
Stringify(data) == <<"json", data>>

ContentTypeOf(helper) ==
  CASE helper = "json" -> "application/json"
    [] helper = "text" -> "text/plain"
    [] helper = "html" -> "text/html; charset=UTF-8"

ContentOf(helper, data) == IF helper = "json" THEN Stringify(data) ELSE data

\* exeContext.json / text / html (data, arg, headers).
Helper(helper, data, arg, headers) ==
  IF arg.tag = "number" /\ headers.given
  THEN createResponse(ContentOf(helper, data), arg, headers,
                      ContentTypeOf(helper))
  ELSE createResponse(ContentOf(helper, data), arg, NoHeaders,
                      ContentTypeOf(helper))

NoHelperCall ==
  [helper |-> None, shape |-> None, data |-> None, arg |-> Undef,
   headers |-> NoHeaders]

InitHelpers ==
  /\ helperCall = NoHelperCall
  /\ helperResponse = [status |-> 0, headers |-> <<>>, body |-> None]
  /\ partialCall = NoHelperCall
  /\ partialResponse = [status |-> 0, headers |-> <<>>, body |-> None]

Called(helper, shape, data, arg, headers) ==
  /\ UNCHANGED <<partialCall, partialResponse>>
  /\ helperCall' = [helper |-> helper, shape |-> shape, data |-> data,
                    arg |-> arg, headers |-> headers]
  /\ helperResponse' = Helper(helper, data, arg, headers)

\* helper(data)
CallData(helper, data) ==
  Called(helper, "data", data, Undef, NoHeaders)

\* helper(data, status)
CallStatus(helper, data, status) ==
  Called(helper, "status", data, Number(status), NoHeaders)

\* helper(data, responseInit)
CallInit(helper, data, hasStatus, status, hasHeaders, hs) ==
  Called(helper, "init", data,
         ResponseInit(hasStatus, status, hasHeaders, hs), NoHeaders)

\* helper(data, status, headers)
CallStatusHeaders(helper, data, status, hs) ==
  Called(helper, "status, headers", data, Number(status), Given(hs))

\* toPartialContext: json: (data, _arg?, _headers?) => new Response(
\* JSON.stringify(data)), text and html alike.  new Response(string) has the
\* status 200 and the Content-Type the platform gives a string body.
PlatformTextType == "text/plain;charset=UTF-8"

newResponse(body) ==
  [status |-> 200,
   headers |-> HeadersSet(<<>>, "Content-Type", <<PlatformTextType>>),
   body |-> body]

PartialHelperLikeRoute(helper, data, arg, headers) ==
  Helper(helper, data, arg, headers)

PartialHelper(helper, data, arg, headers) ==
  newResponse(ContentOf(helper, data))

PartialCalled(helper, shape, data, arg, headers) ==
  /\ partialCall' = [helper |-> helper, shape |-> shape, data |-> data,
                     arg |-> arg, headers |-> headers]
  /\ partialResponse' = PartialHelper(helper, data, arg, headers)

\* helper(data) on the context of the default or error handler
PartialCallData(helper, data) ==
  /\ PartialCalled(helper, "data", data, Undef, NoHeaders)
  /\ UNCHANGED <<helperCall, helperResponse>>

\* helper(data, status) on the context of the default or error handler
PartialCallStatus(helper, data, status) ==
  /\ PartialCalled(helper, "status", data, Number(status), NoHeaders)
  /\ UNCHANGED <<helperCall, helperResponse>>

\* ------------------------------------------------------- the state record
\* main.ts, Router.fetch, execute and toPartialContext: two requests served
\* by one router, each running through the chain with its state record. The
\* records are objects held in a table and referred to by their index; a
\* record is the set of the fields written into it, a field naming the
\* request and the handler that wrote it.
VARIABLES
  croutes,   \* router.routes: routes that match every request
  records,   \* the table of state records
  given,     \* given[r]: the state argument of fetch, or Undefined
  chain,     \* chain[r]: the record execute was called with
  cpc,       \* cpc[r]: where the fetch of r stands
  cidx,      \* cidx[r]: the i of the execute call in progress
  cstack,    \* cstack[r]: the handlers awaiting their ctx.next()
  cout,      \* cout[r]: what travels up the chain, "resp" or "throw"
  clog       \* clog[r]: history of the handlers run for r

chainVars == <<croutes, records, given, chain, cpc, cidx, cstack, cout, clog>>

MaxChain == 2

InitChain ==
  /\ croutes = <<>>
  /\ records = <<>>
  /\ given = [r \in Reqs |-> Undefined]
  /\ chain = [r \in Reqs |-> Undefined]
  /\ cpc = [r \in Reqs |-> "idle"]
  /\ cidx = [r \in Reqs |-> 0]
  /\ cstack = [r \in Reqs |-> <<>>]
  /\ cout = [r \in Reqs |-> None]
  /\ clog = [r \in Reqs |-> <<>>]

\* A history entry: the handler ("start" of route i, "resume" of route i
\* after its await, "default", "error"), the record its context holds, the
\* fields it finds there, and what it returned or was handed.
Seen(ev, i, recs, ref, out) ==
  [ev |-> ev, i |-> i, ref |-> ref, seen |-> recs[ref], out |-> out]

\* router.with(route), during setup.
ChainWith ==
  /\ \A r \in Reqs : cpc[r] = "idle"
  /\ Len(croutes) < MaxChain
  /\ croutes' = Append(croutes, "*")
  /\ UNCHANGED <<records, given, chain, cpc, cidx, cstack, cout, clog>>

\* The table with the object ref in it, new objects being empty records.
Alloc(recs, ref) == IF ref > Len(recs) THEN Append(recs, {}) ELSE recs

\* Object.assign(ctx.state, { ... }).
Assign(recs, ref, field) == [recs EXCEPT ![ref] = @ \cup {field}]

\* router.initializeState(): () => ({}), a new record at every call.
initializeStateShared(recs) == 1

initializeState(recs) == Len(recs) + 1

\* toPartialContext(ctx).state: ctx.state ?? {}.
PartialState(recs, state) ==
  IF state # Undefined THEN state ELSE Len(recs) + 1

\* router.fetch(request, info, state): execute(router, 0, request, info,
\* state ?? router.initializeState()). A caller that passes a state passes a
\* record of its own.
ChainFetch(r, explicit) ==
  /\ cpc[r] = "idle"
  /\ LET own == IF explicit THEN Append(records, {<<r, 0>>}) ELSE records
         state == IF explicit THEN Len(own) ELSE Undefined
         used == IF state # Undefined THEN state ELSE initializeState(own)
     IN /\ records' = Alloc(own, used)
        /\ given' = [given EXCEPT ![r] = state]
        /\ chain' = [chain EXCEPT ![r] = used]
  /\ cpc' = [cpc EXCEPT ![r] = "execute"]
  /\ cidx' = [cidx EXCEPT ![r] = 1]
  /\ UNCHANGED <<croutes, cstack, cout, clog>>

ChainKinds == {"await", "respond", "throw"}

\* execute, i < routes.length: the handler of route i runs with ctx.state the
\* record of the chain, writes a field into it, and then awaits ctx.next(),
\* returns a response, or throws an Error.
ChainHandle(r, kind) ==
  /\ cpc[r] = "execute"
  /\ cidx[r] <= Len(croutes)
  /\ records' = Assign(records, chain[r], <<r, cidx[r]>>)
  /\ clog' = [clog EXCEPT ![r] =
                Append(@, Seen("start", cidx[r], records', chain[r],
                               IF kind = "await" THEN None
                               ELSE IF kind = "respond" THEN "resp"
                               ELSE "throw"))]
  /\ \/ /\ kind = "await"
        /\ cstack' = [cstack EXCEPT ![r] = Append(@, cidx[r])]
        /\ cidx' = [cidx EXCEPT ![r] = @ + 1]
        /\ UNCHANGED <<cpc, cout>>
     \/ /\ kind = "respond"
        /\ cout' = [cout EXCEPT ![r] = "resp"]
        /\ cpc' = [cpc EXCEPT ![r] = "return"]
        /\ UNCHANGED <<cstack, cidx>>
     \/ /\ kind = "throw"
        /\ cout' = [cout EXCEPT ![r] = "throw"]
        /\ cpc' = [cpc EXCEPT ![r] = "return"]
        /\ UNCHANGED <<cstack, cidx>>
  /\ UNCHANGED <<croutes, given, chain>>

\* execute, i >= routes.length: router.handleDefault(toPartialContext({
\* request, info, state })), the handler writing a field of its own.
ChainDefault(r) ==
  /\ cpc[r] = "execute"
  /\ cidx[r] > Len(croutes)
  /\ LET ref == PartialState(records, chain[r]) IN
     /\ records' = Assign(Alloc(records, ref), ref, <<r, cidx[r]>>)
     /\ clog' = [clog EXCEPT ![r] =
                   Append(@, Seen("default", cidx[r], records', ref, "resp"))]
  /\ cout' = [cout EXCEPT ![r] = "resp"]
  /\ cpc' = [cpc EXCEPT ![r] = "return"]
  /\ UNCHANGED <<croutes, given, chain, cidx, cstack>>

\* next = async () => await execute(router, i + 1, ...): the promise of
\* next() settles when that execute call has.
NextSettledAtOnce(r) == cpc[r] \in {"execute", "return"}

NextSettled(r) == cpc[r] = "return"

\* The handler awaiting next() resumes, reads the state and hands on what it
\* was given.
ChainResume(r) ==
  /\ NextSettled(r)
  /\ cstack[r] # <<>>
  /\ clog' = [clog EXCEPT ![r] =
                Append(@, Seen("resume", cstack[r][Len(cstack[r])], records,
                               chain[r], cout[r]))]
  /\ cstack' = [cstack EXCEPT ![r] = SubSeq(@, 1, Len(@) - 1)]
  /\ UNCHANGED <<croutes, records, given, chain, cpc, cidx, cout>>

\* fetch: the chain returned a response.
ChainResolve(r) ==
  /\ cpc[r] = "return"
  /\ cstack[r] = <<>>
  /\ cout[r] = "resp"
  /\ cpc' = [cpc EXCEPT ![r] = "done"]
  /\ UNCHANGED <<croutes, records, given, chain, cidx, cstack, cout, clog>>

\* fetch, catch (error): router.handleError(error, toPartialContext({
\* request, info, state })), state being the argument of fetch.
ChainError(r) ==
  /\ cpc[r] = "return"
  /\ cstack[r] = <<>>
  /\ cout[r] = "throw"
  /\ LET ref == PartialState(records, given[r]) IN
     /\ records' = Alloc(records, ref)
     /\ clog' = [clog EXCEPT ![r] =
                   Append(@, Seen("error", 0, records', ref, "resp"))]
  /\ cout' = [cout EXCEPT ![r] = "resp"]
  /\ cpc' = [cpc EXCEPT ![r] = "done"]
  /\ UNCHANGED <<croutes, given, chain, cidx, cstack>>

\* ------------------------------------------------------------ client address
\* src/lib/app-state.ts: getClientIP and the validation it relies on.  A
\* string is a sequence of tokens (digit or hex runs, ".", ":", quotes and
\* brackets); the empty string and a missing header are both <<>>, which is
\* how the code's truthiness tests treat them.
VARIABLES ipHeaders, remoteAddr, clientIP, checkedIP, checkedValid

ipVars == <<ipHeaders, remoteAddr, clientIP, checkedIP, checkedValid>>

MaxList == 2

Empty == <<>>
Unknown == <<"unknown">>
NotCalled == <<"not called">>

Public4 == <<"8", ".", "8", ".", "8", ".", "8">>
Public4Port == <<"8", ".", "8", ".", "4", ".", "4", ":", "443">>
Public172 == <<"172", ".", "32", ".", "0", ".", "1">>
Public6 == <<"2001", ":", "db8", ":", ":", "1">>
Loopback4 == <<"127", ".", "0", ".", "0", ".", "1">>
Private10 == <<"10", ".", "0", ".", "0", ".", "1">>
Private172 == <<"172", ".", "16", ".", "0", ".", "1">>
Private172Top == <<"172", ".", "31", ".", "0", ".", "1">>
Private192 == <<"192", ".", "168", ".", "1", ".", "1">>
LinkLocal4 == <<"169", ".", "254", ".", "1", ".", "1">>
Loopback6 == <<":", ":", "1">>
UniqueLocal6 == <<"fd00", ":", ":", "1">>
UniqueLocal6Upper == <<"FD00", ":", ":", "1">>

Addresses ==
  {Public4, Public4Port, Public172, Public6, Loopback4, Private10,
   Private172, Private172Top, Private192, LinkLocal4, Loopback6,
   UniqueLocal6, UniqueLocal6Upper}

SingleHeaders == {"cfConnectingIP", "trueClientIP", "xRealIP"}
SingleValues == {Public4, Loopback4, Loopback6}
ListValues == {Public4Port, Private10, Loopback6}
RemoteAddrs == {Loopback4}

\* Forwarded: the pairs of the header after the split on "," and ";".
ForwardedPairs ==
  {[key |-> "for", value |-> Public4Port],
   [key |-> "for", value |-> Loopback4],
   [key |-> "for", value |-> <<"\"", "[">> \o Loopback6 \o <<"]", "\"">>],
   [key |-> "by", value |-> Public172]}

\* ip.split(':')[0]
BeforeColon(s) ==
  LET at == {i \in 1..Len(s) : s[i] = ":"}
  IN IF at = {} THEN s
     ELSE SubSeq(s, 1, (CHOOSE i \in at : \A j \in at : i <= j) - 1)

StartsWith(s, prefix) ==
  /\ Len(s) >= Len(prefix)
  /\ SubSeq(s, 1, Len(prefix)) = prefix

\* (1[6-9]|2[0-9]|3[0-1])
Octets172 ==
  {"16", "17", "18", "19", "20", "21", "22", "23", "24", "25", "26", "27",
   "28", "29", "30", "31"}

\* The tokens of the model that begin with the two letters "fd".
FdTokens == {"fd00"}

isValidPublicIPAlways(ip) == TRUE

isValidPublicIP(ip) ==
  LET cleanIP == BeforeColon(ip)
  IN ~ \/ StartsWith(cleanIP, <<"127", ".">>)
       \/ StartsWith(cleanIP, <<"10", ".">>)
       \/ /\ Len(cleanIP) >= 4
          /\ cleanIP[1] = "172" /\ cleanIP[2] = "."
          /\ cleanIP[3] \in Octets172 /\ cleanIP[4] = "."
       \/ StartsWith(cleanIP, <<"192", ".", "168", ".">>)
       \/ cleanIP = <<":", ":", "1">>
       \/ Len(cleanIP) >= 1 /\ cleanIP[1] \in FdTokens
       \/ StartsWith(cleanIP, <<"169", ".", "254", ".">>)

validateAndReturnIP(ip) == IF isValidPublicIP(ip) THEN ip ELSE Unknown

\* value.replace(/^["\[]|["\]]$/g, '').split(':')[0]
Unwrap(value) ==
  LET front == IF Len(value) >= 1 /\ value[1] \in {"\"", "["}
               THEN SubSeq(value, 2, Len(value)) ELSE value
      back == IF Len(front) >= 1 /\ front[Len(front)] \in {"\"", "]"}
              THEN SubSeq(front, 1, Len(front) - 1) ELSE front
  IN BeforeColon(back)

\* The first "for" pair whose cleaned value is accepted, or null (Empty).
extractForwardedFor(pairs) ==
  LET hits == {i \in 1..Len(pairs) :
                 /\ pairs[i].key = "for"
                 /\ isValidPublicIP(Unwrap(pairs[i].value))}
  IN IF hits = {} THEN Empty
     ELSE Unwrap(pairs[CHOOSE i \in hits : \A j \in hits : i <= j].value)

\* The entries of X-Forwarded-For that pass the filter, in order.
RECURSIVE Filtered(_)
Filtered(ips) ==
  IF ips = <<>> THEN <<>>
  ELSE IF isValidPublicIP(Head(ips))
       THEN <<Head(ips)>> \o Filtered(Tail(ips))
       ELSE Filtered(Tail(ips))

getClientIP(h, remote) ==
  IF h.cfConnectingIP # Empty THEN validateAndReturnIP(h.cfConnectingIP)
  ELSE IF h.trueClientIP # Empty THEN validateAndReturnIP(h.trueClientIP)
  ELSE IF h.xRealIP # Empty THEN validateAndReturnIP(h.xRealIP)
  ELSE IF h.xForwardedFor # <<>> /\ Filtered(h.xForwardedFor) # <<>>
       THEN Filtered(h.xForwardedFor)[1]
  ELSE IF /\ h.forwarded # <<>>
          /\ extractForwardedFor(h.forwarded) # Empty
          /\ isValidPublicIP(extractForwardedFor(h.forwarded))
       THEN extractForwardedFor(h.forwarded)
  ELSE IF remote # Empty THEN remote
  ELSE Unknown

NoHeadersRead ==
  [cfConnectingIP |-> Empty, trueClientIP |-> Empty, xRealIP |-> Empty,
   xForwardedFor |-> <<>>, forwarded |-> <<>>]

InitIP ==
  /\ ipHeaders = NoHeadersRead
  /\ remoteAddr = Empty
  /\ clientIP = NotCalled
  /\ checkedIP = Empty
  /\ checkedValid = FALSE

IPIdle == clientIP = NotCalled /\ checkedIP = Empty

\* The request arrives with one more of the single-valued proxy headers.
SetProxyHeader(name, value) ==
  /\ IPIdle
  /\ ipHeaders[name] = Empty
  /\ ipHeaders' = [ipHeaders EXCEPT ![name] = value]
  /\ UNCHANGED <<remoteAddr, clientIP, checkedIP, checkedValid>>

\* One more entry in X-Forwarded-For.
AppendForwardedFor(ip) ==
  /\ IPIdle
  /\ Len(ipHeaders.xForwardedFor) < MaxList
  /\ ipHeaders' = [ipHeaders EXCEPT !.xForwardedFor = Append(@, ip)]
  /\ UNCHANGED <<remoteAddr, clientIP, checkedIP, checkedValid>>

\* One more pair in Forwarded.
AppendForwarded(pair) ==
  /\ IPIdle
  /\ Len(ipHeaders.forwarded) < MaxList
  /\ ipHeaders' = [ipHeaders EXCEPT !.forwarded = Append(@, pair)]
  /\ UNCHANGED <<remoteAddr, clientIP, checkedIP, checkedValid>>

\* info.remoteAddr.hostname is known.
Connect(remote) ==
  /\ IPIdle
  /\ remoteAddr = Empty
  /\ remoteAddr' = remote
  /\ UNCHANGED <<ipHeaders, clientIP, checkedIP, checkedValid>>

\* The call of getClientIP(req, info).
GetClientIP ==
  /\ IPIdle
  /\ clientIP' = getClientIP(ipHeaders, remoteAddr)
  /\ UNCHANGED <<ipHeaders, remoteAddr, checkedIP, checkedValid>>

\* One call of isValidPublicIP(ip).
IsValidPublicIP(ip) ==
  /\ IPIdle
  /\ ipHeaders = NoHeadersRead
  /\ remoteAddr = Empty
  /\ checkedIP' = ip
  /\ checkedValid' = isValidPublicIP(ip)
  /\ UNCHANGED <<ipHeaders, remoteAddr, clientIP>>

\* ------------------------------------------------------------ client request
\* src/src/framework/request.tsx: createRscRenderRequest, and the way of the
\* request it builds through the routes of the application into
\* processAction.  A pathname is "/" followed by its segments joined by "/":
\* "/" is <<"">>, "/about" is <<"about">>, "/about/" is <<"about", "">>.
VARIABLES location, built, dispatched, classified

clientVars == <<location, built, dispatched, classified>>

URL_POSTFIX == <<"_rsc", "actions">>

PagePaths == {<<"">>, <<"about">>, <<"about", "">>, <<"docs", "intro">>}
PageQueries == {"", "?tab=1"}
NoAction == [id |-> None, body |-> None]
ClientActions ==
  {NoAction} \cup [id : {"", "known", "unknown"}, body : {"args", "garbage"}]

NoLocation == [pathname |-> <<>>, search |-> None]
NoBuilt ==
  [method |-> None, pathname |-> <<>>, search |-> None, actionId |-> None,
   accept |-> None, referer |-> None, body |-> None]

\* url.pathname += URL_POSTFIX: the text is appended to the pathname, so its
\* first segment continues the last segment of the page's pathname.
AppendPostfixAsSegments(pathname) ==
  IF pathname[Len(pathname)] = ""
  THEN SubSeq(pathname, 1, Len(pathname) - 1) \o URL_POSTFIX
  ELSE pathname \o URL_POSTFIX

AppendPostfix(pathname) ==
  [pathname EXCEPT ![Len(pathname)] = @ \o Head(URL_POSTFIX)]
    \o Tail(URL_POSTFIX)

createRscRenderRequest(url, action) ==
  [method |-> IF action # NoAction THEN "POST" ELSE "GET",
   pathname |-> IF action # NoAction THEN AppendPostfix(url.pathname)
                ELSE url.pathname,
   search |-> url.search,
   actionId |-> action.id,
   accept |-> "text/x-component",
   referer |-> IF action # NoAction THEN "location.href" ELSE None,
   body |-> action.body]

\* The routes of the application, in the order of their registration.
AppRoutes ==
  <<[method |-> "GET",
     pattern |-> <<".well-known", "appspecific", "com.chrome.devtools.json">>,
     handler |-> "devtools"],
    [method |-> "GET", pattern |-> <<"">>, handler |-> "render"],
    [method |-> "GET", pattern |-> <<"assets", "*">>, handler |-> "statics"],
    [method |-> "POST", pattern |-> <<"_rsc", "actions">>,
     handler |-> "actions"]>>

\* The handler of the first route that matches, or the default handler.
DispatchOf(q) ==
  LET hits == {i \in 1..Len(AppRoutes) :
                 /\ AppRoutes[i].method = q.method
                 /\ PatternMatches(AppRoutes[i].pattern, q.pathname)}
  IN IF hits = {} THEN "default"
     ELSE AppRoutes[CHOOSE i \in hits : \A j \in hits : i <= j].handler

InitClient ==
  /\ location = NoLocation
  /\ built = NoBuilt
  /\ dispatched = None
  /\ classified = None

\* The browser shows a page of the application.
Visit(pathname, search) ==
  /\ location = NoLocation
  /\ location' = [pathname |-> pathname, search |-> search]
  /\ UNCHANGED <<built, dispatched, classified>>

\* The client builds the request for a navigation or for an action call.
CreateRscRenderRequest(action) ==
  /\ location # NoLocation
  /\ built = NoBuilt
  /\ built' = createRscRenderRequest(location, action)
  /\ UNCHANGED <<location, dispatched, classified>>

\* The router picks the handler of the request.
Dispatch ==
  /\ built # NoBuilt
  /\ dispatched = None
  /\ dispatched' = DispatchOf(built)
  /\ UNCHANGED <<location, built, classified>>

\* The action or render handler passes the request to processAction.
Classify ==
  /\ dispatched \in {"actions", "render"}
  /\ classified = None
  /\ classified' = ProcessStart(built)
  /\ UNCHANGED <<location, built, dispatched>>

vars == <<routerVars, storageVars, actionVars, mergeVars, heapVars,
          outsideVars, helperVars, chainVars, ipVars, clientVars>>

Init == InitRouter /\ InitStorage /\ InitAction /\ InitMerge /\ InitHeap
        /\ InitOutside /\ InitHelpers /\ InitChain /\ InitIP
        /\ InitClient

Others ==
  <<routerVars, actionVars, mergeVars, heapVars, helperVars, chainVars,
    ipVars, clientVars>>
RouterOnly ==
  UNCHANGED <<storageVars, actionVars, mergeVars, heapVars, outsideVars,
              helperVars, chainVars, ipVars, clientVars>>
StorageOnly == UNCHANGED <<Others, outsideVars>>
ActionOnly ==
  UNCHANGED <<routerVars, mergeVars, heapVars, outsideVars, helperVars,
              chainVars, ipVars, clientVars>>
MergeOnly ==
  UNCHANGED <<routerVars, storageVars, actionVars, heapVars, outsideVars,
              helperVars, chainVars, ipVars, clientVars>>
HeapOnly ==
  UNCHANGED <<routerVars, storageVars, actionVars, mergeVars, outsideVars,
              helperVars, chainVars, ipVars, clientVars>>
HelpersOnly ==
  UNCHANGED <<routerVars, storageVars, actionVars, mergeVars, heapVars,
              outsideVars, chainVars, ipVars, clientVars>>
ChainOnly ==
  UNCHANGED <<routerVars, storageVars, actionVars, mergeVars, heapVars,
              outsideVars, helperVars, ipVars, clientVars>>
IPOnly ==
  UNCHANGED <<routerVars, storageVars, actionVars, mergeVars, heapVars,
              outsideVars, helperVars, chainVars, clientVars>>
ClientOnly ==
  UNCHANGED <<routerVars, storageVars, actionVars, mergeVars, heapVars,
              outsideVars, helperVars, chainVars, ipVars>>

\* The router serving requests.
Next ==
  \/ \E m \in RouteMethods, p \in Patterns :
       On(m, p) /\ RouterOnly
  \/ Use(logMiddleware) /\ RouterOnly
  \/ Default /\ RouterOnly
  \/ Error /\ RouterOnly
  \/ \E m \in Verbs, p \in Paths :
       Fetch(m, p) /\ RouterOnly
  \/ ExecuteDefault /\ RouterOnly
  \/ ExecuteSkip /\ RouterOnly
  \/ \E k \in LeafKinds :
       ExecuteLeaf(k) /\ RouterOnly
  \/ \E k \in NextKinds :
       ExecuteNext(k) /\ RouterOnly
  \/ Return /\ RouterOnly
  \/ FetchResolve /\ RouterOnly
  \/ FetchHandleError /\ RouterOnly
  \/ FetchReject /\ RouterOnly
Spec == Init /\ [][Next]_vars

\* Two requests inside their storage scopes, interleaved at will.
NextStorage ==
  \/ \E r \in Reqs :
       Enter(r) /\ StorageOnly
  \/ \E r \in Reqs, u \in RedirectUrls, st \in RedirectStatuses :
       Redirect(r, u, st) /\ StorageOnly
  \/ \E r \in Reqs, p \in RevalidatePaths :
       RevalidatePath(r, p, None) /\ StorageOnly
  \/ \E r \in Reqs :
       CookieSet(r, "datetime", "v") /\ StorageOnly
  \/ \E r \in Reqs :
       Read(r) /\ StorageOnly
  \/ \E r \in Reqs :
       Leave(r) /\ departed' = TRUE /\ UNCHANGED <<Others, outside>>
  \/ \E r \in Reqs, u \in RedirectUrls, st \in RedirectStatuses :
       RedirectOutside(r, u, st) /\ UNCHANGED Others
  \/ \E r \in Reqs, p \in RevalidatePaths :
       RevalidatePathOutside(r, p, None) /\ UNCHANGED Others
SpecStorage == Init /\ [][NextStorage]_vars

\* The handlers of the action endpoint and of a page serving requests.
NextAction ==
  \/ \E ep \in Endpoints, m \in Verbs, aid \in ActionIds, body \in Bodies,
        acc \in Accepts, ref \in Referers :
       Arrive(ep, m, aid, body, acc, ref) /\ ActionOnly
  \/ \E acc \in Accepts, query \in QueryFlags :
       ArrivePage(acc, query) /\ ActionOnly
  \/ \E r \in Reqs :
       HandlerEnter(r) /\ ActionOnly
  \/ \E r \in Reqs :
       ReadBody(r) /\ ActionOnly
  \/ \E r \in Reqs, threw \in BOOLEAN :
       ActionSettles(r, threw) /\ ActionOnly
  \/ \E r \in Reqs :
       ReadForm(r) /\ ActionOnly
  \/ \E r \in Reqs, threw, stateDecodes \in BOOLEAN :
       FormActionSettles(r, threw, stateDecodes) /\ ActionOnly
  \/ \E r \in Reqs, u \in RedirectUrls, st \in RedirectStatuses :
       ActionRedirects(r, u, st) /\ ActionOnly
  \/ \E r \in Reqs, path \in RevalidatePaths :
       ActionRevalidates(r, path) /\ ActionOnly
  \/ \E r \in Reqs :
       ActionSetsCookie(r) /\ ActionOnly
  \/ \E r \in Reqs :
       Assemble(r) /\ ActionOnly
  \/ \E ep \in Endpoints :
       ProxyFetch(ep) /\ ActionOnly
  \/ \E answer \in ProxiedAnswers :
       ProxyElsewhere(answer) /\ ActionOnly
  \/ ProxyReturn /\ ActionOnly
  \/ Depart /\ ActionOnly
SpecAction == Init /\ [][NextAction]_vars

\* mergeHeaders over every sequence of sources.
NextMerge ==
  \/ \E headers \in HeaderSources :
       AddSource(headers) /\ MergeOnly
  \/ \E asked \in RequestHeaders, pending \in PendingHeaders :
       ForwardHeaders(asked, pending) /\ MergeOnly
SpecMerge == Init /\ [][NextMerge]_vars

\* One RouteStorage, its callers and the holders of its snapshots.
NextHeap ==
  \/ \E u \in RedirectUrls, st \in RedirectStatuses :
       StorageRedirect(u, st) /\ HeapOnly
  \/ \E p \in RevalidatePaths, t \in PathTypes :
       StorageRevalidatePath(p, t) /\ HeapOnly
  \/ GetCurrentClientRouteState /\ HeapOnly
  \/ \E k \in 1..MaxSnapshots, defined \in BOOLEAN :
       ReplaceRedirect(k, defined) /\ HeapOnly
  \/ \E k \in 1..MaxSnapshots :
       EditRedirect(k) /\ HeapOnly
  \/ \E k \in 1..MaxSnapshots :
       PushToSnapshot(k) /\ HeapOnly
  \/ \E k \in 1..MaxSnapshots :
       EditEntry(k) /\ HeapOnly
SpecHeap == Init /\ [][NextHeap]_vars

\* A route handler answering with one of the helpers of its context.
NextHelpers ==
  \/ \E h \in Helpers, d \in Datas :
       CallData(h, d) /\ HelpersOnly
  \/ \E h \in Helpers, d \in Datas, st \in StatusCodes :
       CallStatus(h, d, st) /\ HelpersOnly
  \/ \E h \in Helpers, d \in Datas, hasStatus \in BOOLEAN,
        st \in StatusCodes, hasHeaders \in BOOLEAN, hs \in SuppliedHeaders :
       CallInit(h, d, hasStatus, st, hasHeaders, hs) /\ HelpersOnly
  \/ \E h \in Helpers, d \in Datas, st \in StatusCodes,
        hs \in SuppliedHeaders :
       CallStatusHeaders(h, d, st, hs) /\ HelpersOnly
  \/ \E h \in Helpers, d \in Datas :
       PartialCallData(h, d) /\ HelpersOnly
  \/ \E h \in Helpers, d \in Datas, st \in StatusCodes :
       PartialCallStatus(h, d, st) /\ HelpersOnly
SpecHelpers == Init /\ [][NextHelpers]_vars

\* Two requests running through the chain with their state records.
NextChain ==
  \/ ChainWith /\ ChainOnly
  \/ \E r \in Reqs, explicit \in BOOLEAN :
       ChainFetch(r, explicit) /\ ChainOnly
  \/ \E r \in Reqs, kind \in ChainKinds :
       ChainHandle(r, kind) /\ ChainOnly
  \/ \E r \in Reqs :
       ChainDefault(r) /\ ChainOnly
  \/ \E r \in Reqs :
       ChainResume(r) /\ ChainOnly
  \/ \E r \in Reqs :
       ChainResolve(r) /\ ChainOnly
  \/ \E r \in Reqs :
       ChainError(r) /\ ChainOnly
SpecChain == Init /\ [][NextChain]_vars

\* Requests with proxy headers, getClientIP and isValidPublicIP.
NextIP ==
  \/ \E name \in SingleHeaders, value \in SingleValues :
       SetProxyHeader(name, value) /\ IPOnly
  \/ \E ip \in ListValues :
       AppendForwardedFor(ip) /\ IPOnly
  \/ \E pair \in ForwardedPairs :
       AppendForwarded(pair) /\ IPOnly
  \/ \E remote \in RemoteAddrs :
       Connect(remote) /\ IPOnly
  \/ GetClientIP /\ IPOnly
  \/ \E ip \in Addresses :
       IsValidPublicIP(ip) /\ IPOnly

SpecIP == Init /\ [][NextIP]_vars

\* The client builds a request and the server takes it in.
NextClient ==
  \/ \E pathname \in PagePaths, search \in PageQueries :
       Visit(pathname, search) /\ ClientOnly
  \/ \E action \in ClientActions :
       CreateRscRenderRequest(action) /\ ClientOnly
  \/ Dispatch /\ ClientOnly
  \/ Classify /\ ClientOnly

SpecClient == Init /\ [][NextClient]_vars

\* ------------------------------------------------------- router properties
Settled == pc \in {"resolved", "rejected"}
Indices(ev) == {k \in 1..Len(log) : log[k].ev = ev}
Started(i) == \E k \in Indices("start") : log[k].i = i
PathMatches(i) == PatternMatches(routes[i].pattern, request.path)
VerbAccepted(i) ==
  \/ routes[i].method.tag = "undefined"
  \/ request.method \in routes[i].method.verbs
BothMatch(i) == PathMatches(i) /\ VerbAccepted(i)

\* C1: routes are tried in registration order. When two registered routes
\* both match the request, the later one's handler starts only after the
\* earlier one's handler has started and has called next().
C1_RegistrationOrder ==
  \A i, j \in 1..Len(routes) :
    (i < j /\ BothMatch(i) /\ BothMatch(j)) =>
      \A kj \in Indices("start") :
        log[kj].i = j =>
          \E ki, kn \in 1..Len(log) :
            /\ ki < kn /\ kn < kj
            /\ log[ki].ev = "start" /\ log[ki].i = i
            /\ log[kn].ev = "next" /\ log[kn].i = i

C1_Witness ==
  /\ Len(routes) = 2
  /\ BothMatch(1) /\ BothMatch(2)
  /\ routes[1] # routes[2]
  /\ Started(1) /\ Started(2)

\* C2: a route registered with a verb or a list of verbs never has its
\* handler run for a request with another verb, even when the path matches:
\* dispatch skips it and goes on to the next route. A route registered
\* without a method runs for every verb once dispatch reaches it and its
\* path matches.
C2_MethodQualified ==
  \A i \in 1..Len(routes) :
    /\ Started(i) =>
         (routes[i].method.tag = "undefined"
            \/ request.method \in routes[i].method.verbs)
    /\ (pc = "execute" /\ idx = i /\ PathMatches(i) /\ ~VerbAccepted(i)) =>
         ENABLED ExecuteSkip
    /\ (pc # "idle" /\ idx > i /\ routes[i].method.tag = "undefined"
          /\ PathMatches(i)) => Started(i)

C2_Witness ==
  /\ Len(routes) = 2
  /\ routes[1].method.tag = "one" /\ PathMatches(1)
  /\ request.method = "POST"
  /\ routes[2].method.tag = "undefined"
  /\ Started(2) /\ ~Started(1)

\* C3: when no registered route matches the request, or every matching route
\* calls next() and returns what it gave, the configured default handler runs
\* exactly once and fetch resolves with the status and body of the response
\* it returned; the built-in default answers 404 "Not found".
PassedThrough ==
  \A k \in Indices("start") : log[k].kind \in {"pass", "wrap"}

C3_DefaultHandler ==
  (Settled /\ PassedThrough) =>
    /\ Cardinality(Indices("default")) = 1
    /\ \A k \in Indices("default") :
         /\ log[k].out.t = "resp" =>
              /\ pc = "resolved"
              /\ outcome.status = log[k].out.status
              /\ outcome.body = log[k].out.body
         /\ handleDefault = "builtin" =>
              /\ pc = "resolved"
              /\ outcome.status = 404
              /\ outcome.body = <<"Not found", 0>>

C3_Witness ==
  /\ pc = "resolved"
  /\ PassedThrough
  /\ Indices("start") # {}
  /\ handleDefault = "builtin"
  /\ outcome.status = 404

\* C4: the next() of the handler at index i continues dispatch from index
\* i + 1: the handler that runs next is the first route after i matching the
\* request, or the default handler when there is none. After a handler that
\* returns without calling next(), no further route and no default handler
\* runs for the request.
FirstMatchAfter(i) ==
  IF \E j \in (i + 1)..Len(routes) : BothMatch(j)
  THEN CHOOSE j \in (i + 1)..Len(routes) :
         BothMatch(j) /\ \A h \in (i + 1)..(j - 1) : ~BothMatch(h)
  ELSE Len(routes) + 1

C4_NextContinues ==
  /\ \A k \in Indices("next") :
       k < Len(log) =>
         /\ log[k + 1].i = FirstMatchAfter(log[k].i)
         /\ log[k + 1].ev =
              (IF FirstMatchAfter(log[k].i) <= Len(routes)
               THEN "start" ELSE "default")
  /\ \A k \in Indices("start") :
       log[k].kind \in LeafKinds =>
         \A h \in (k + 1)..Len(log) : log[h].ev \notin {"start", "default"}

C4_Witness ==
  /\ Len(routes) = 2
  /\ \E k \in Indices("next") : log[k].i = 1 /\ k < Len(log)
  /\ ~BothMatch(2)
  /\ Indices("default") # {}

\* C5 as stated: whenever a throw or a rejection comes out of the chain,
\* fetch does not reject, the error handler runs exactly once with the thrown
\* value and fetch resolves with the error handler's response.
TopThrows == {k \in Indices("settle") : log[k].out.t = "throw"}

C6_Isolation ==
  /\ \A c \in calls :
       c.context = c.by /\ c.state = c.by /\ c.headers = c.by
  /\ \A s \in Reqs :
       /\ clientRouteState[s].redirect.by \in {None, s}
       /\ \A k \in 1..Len(clientRouteState[s].revalidatePaths) :
            clientRouteState[s].revalidatePaths[k].by = s
       /\ \A k \in 1..Len(responseHeaders[s]) : responseHeaders[s][k].by = s

C6_Witness ==
  /\ spc["A"] = "scope" /\ spc["B"] = "scope"
  /\ clientRouteState["A"].redirect.by = "A"
  /\ clientRouteState["B"].redirect.by = "B"
  /\ clientRouteState["A"].redirect.url # clientRouteState["B"].redirect.url
  /\ Len(responseHeaders["B"]) = 1
  /\ \E c \in calls : c.by = "A"

\* ------------------------------------------------------ action properties
\* processAction(request) has returned for r.
Returned(r) == processed[r].keys # {}
\* The handler of r is over: it answered or it threw.
Over(r) == apc[r] \in {"done", "failed"}

\* A POST with a non-empty action id that resolves and arguments that decode.
FetchStyle(q) ==
  q.method = "POST" /\ q.actionId = "known" /\ q.body = "args"
\* A POST without the action-id header whose form holds no action reference.
PlainPost(q) ==
  q.method = "POST" /\ q.actionId = None
    /\ q.body \in {"plainForm", "emptyForm"}
\* A POST without the action-id header whose form decodes to an action.
FormStyle(q) ==
  q.method = "POST" /\ q.actionId = None /\ q.body = "actionForm"

\* C7: for every request handled by the action endpoint the action is
\* invoked at most once, and exactly once by the time the handler is over
\* when the request carries a resolvable action; the GET that serverRedirect
\* issues for a forwarded redirect invokes none.
C7_InvokedOnce ==
  \A r \in Reqs :
    req[r].endpoint = "actions" =>
      /\ invoked[r] <= 1
      /\ (Over(r) /\ (FetchStyle(req[r]) \/ FormStyle(req[r])))
           => invoked[r] = 1
      /\ req[r].method = "GET" => invoked[r] = 0

\* The part of C7 the code keeps: at most one invocation per request, none
\* for a GET, and exactly one when the Referer is an absolute URL.
C7_AtMostOnce ==
  \A r \in Reqs :
    /\ invoked[r] <= 1
    /\ req[r].method = "GET" => invoked[r] = 0
    /\ (req[r].endpoint = "actions" /\ Over(r) /\ ~RefererThrows(req[r])
          /\ (FetchStyle(req[r]) \/ FormStyle(req[r])))
         => invoked[r] = 1

\* A forwarded redirect: the action ran once for "A", asked for a same-origin
\* redirect, and the proxied GET "B" has gone through processAction.
C7_ForwardedWitness ==
  /\ req["A"].endpoint = "actions" /\ invoked["A"] = 1
  /\ apc["A"] = "proxying"
  /\ req["B"].method = "GET" /\ Returned("B") /\ invoked["B"] = 0

\* C8: for a POST with a non-empty action id whose arguments decode and whose
\* action resolves, processAction does not reject and what it returns has
\* isAction true, formState unset and follows the invocation: the action
\* returned v, returnValue is {ok: true, data: v} and actionStatus is unset;
\* the action threw e, returnValue is {ok: false, data: e} and actionStatus
\* is 500.
C8_FetchStyleOutcome ==
  \A r \in Reqs :
    FetchStyle(req[r]) =>
      /\ resp[r] # Rejected
      /\ Returned(r) =>
           /\ processed[r].isAction
           /\ processed[r].formState = None
           /\ "formState" \notin processed[r].keys
           /\ settled[r] \in {"returned", "threw"}
           /\ settled[r] = "returned" =>
                /\ processed[r].returnValue =
                     [set |-> TRUE, ok |-> TRUE, data |-> "v"]
                /\ processed[r].actionStatus = None
           /\ settled[r] = "threw" =>
                /\ processed[r].returnValue =
                     [set |-> TRUE, ok |-> FALSE, data |-> "e"]
                /\ processed[r].actionStatus = "500"

C8_Witness ==
  \E r \in Reqs :
    FetchStyle(req[r]) /\ Returned(r) /\ settled[r] = "threw"
      /\ processed[r].actionStatus = "500"

\* C9: for a POST without the action-id header whose form holds no decodable
\* action reference, processAction does not reject, invokes no action and
\* returns exactly {isAction: false}, whatever the form fields are.
C9_NotAnAction ==
  \A r \in Reqs :
    PlainPost(req[r]) =>
      /\ resp[r] # Rejected
      /\ invoked[r] = 0
      /\ Returned(r) =>
           /\ processed[r].keys = {"isAction"}
           /\ ~processed[r].isAction
           /\ processed[r].returnValue = Unset
           /\ processed[r].formState = None
           /\ processed[r].actionStatus = None
           /\ processed[r].temporaryReferences = None

C9_Witness ==
  /\ PlainPost(req["A"]) /\ Returned("A") /\ Over("A")
  /\ req["A"].body = "plainForm"

\* C10: for a POST without the action-id header whose form decodes to an
\* action, processAction does not reject and returns isAction true; when the
\* action or the decoding of the form state after it threw, actionStatus is
\* 500 and neither formState nor returnValue is set; when both succeeded,
\* formState is the decoded form state and actionStatus is unset.
C10_FormStyleOutcome ==
  \A r \in Reqs :
    FormStyle(req[r]) =>
      /\ resp[r] # Rejected
      /\ Returned(r) =>
           /\ processed[r].isAction
           /\ settled[r] \in {"returned", "threw", "decodeFormState threw"}
           /\ settled[r] # "returned" =>
                /\ processed[r].actionStatus = "500"
                /\ processed[r].formState = None
                /\ processed[r].returnValue = Unset
           /\ settled[r] = "returned" =>
                /\ processed[r].formState = "formState"
                /\ processed[r].actionStatus = None

C10_Witness ==
  \E r \in Reqs :
    FormStyle(req[r]) /\ Returned(r) /\ settled[r] = "decodeFormState threw"
      /\ processed[r].actionStatus = "500"

\* The handler of r is past processAction's start and has not thrown.
PastStart(r) == apc[r] \in {"assemble", "proxying", "done"}

\* C11: for every request whose method is not POST, processAction returns
\* {isAction: false} at once: it reads no body and no form, decodes nothing,
\* looks up and invokes no action and does not reject, whether or not the
\* action-id header is present.
C11_NonPostNotAction ==
  \A r \in Reqs :
    req[r].method \notin {None, "POST"} =>
      /\ invoked[r] = 0
      /\ apc[r] \notin {"readBody", "readForm", "inAction", "inFormAction"}
      /\ resp[r] # Rejected
      /\ (PastStart(r) /\ req[r].endpoint \in Endpoints) => Returned(r)
      /\ Returned(r) =>
           /\ processed[r].keys = {"isAction"}
           /\ ~processed[r].isAction

C11_Witness ==
  /\ req["A"].method = "GET" /\ req["A"].actionId = "known"
  /\ Returned("A")

\* C12: on the action endpoint, when processAction reported isAction false
\* the handler answers 400 and does nothing else, whatever the client route
\* state holds: no proxied fetch is in flight, and the response is the
\* refusal text with no Location, X-Location or redirect header and no
\* payload.
C12_RefusesNonAction ==
  \A r \in Reqs :
    (req[r].endpoint = "actions" /\ Returned(r) /\ ~processed[r].isAction) =>
      /\ apc[r] \in {"assemble", "done"}
      /\ apc[r] = "done" =>
           /\ resp[r].status = "400"
           /\ resp[r].body = <<r, "text">>
           /\ resp[r].ctype # "text/x-component"
           /\ resp[r].location = Absent /\ resp[r].xLocation = Absent
           /\ resp[r].redirectPath = Absent

C12_Witness ==
  /\ req["A"].endpoint = "actions" /\ req["A"].method = "POST"
  /\ req["A"].body = "plainForm"
  /\ Returned("A") /\ ~processed["A"].isAction /\ apc["A"] = "done"

\* The handler of r has run its synchronous start.
Entered(r) == apc[r] \notin {"idle", "handler"}

\* C13: on the action endpoint the handler does not fail on the Referer: it
\* records '/' when the header is absent or no absolute URL and the URL's
\* pathname otherwise, before the action runs, so that entry is the first
\* of revalidatePaths.
C13_RefererBestEffort ==
  \A r \in Reqs :
    (req[r].endpoint = "actions" /\ Entered(r)) =>
      /\ resp[r] # InvalidUrl
      /\ Len(clientRouteState[r].revalidatePaths) >= 1
      /\ clientRouteState[r].revalidatePaths[1].path =
           IF req[r].referer = "http://localhost/p" THEN "/p" ELSE "/"

\* The part of C13 the code keeps: with an absolute URL as Referer its
\* pathname is the first entry of revalidatePaths, before any invocation.
C13_ValidReferer ==
  \A r \in Reqs :
    (req[r].endpoint = "actions" /\ Entered(r)
       /\ req[r].referer = "http://localhost/p") =>
      /\ resp[r] # InvalidUrl
      /\ Len(clientRouteState[r].revalidatePaths) >= 1
      /\ clientRouteState[r].revalidatePaths[1].path = "/p"

C13_ValidWitness ==
  /\ req["A"].endpoint = "actions" /\ req["A"].referer = "http://localhost/p"
  /\ invoked["A"] = 1 /\ apc["A"] = "done"
  /\ Len(clientRouteState["A"].revalidatePaths) = 2

\* C14: when the action invoked for a request to the action endpoint threw
\* and no redirect is pending, the response of the endpoint has status 500.
C14_ActionStatusApplied ==
  \A r \in Reqs :
    (req[r].endpoint = "actions" /\ apc[r] = "done" /\ settled[r] = "threw"
       /\ clientRouteState[r].redirect.url = None) =>
      resp[r].status = "500"

\* What the code does instead: the payload goes out with the default status.
C14_ThrowAnswered200 ==
  \A r \in Reqs :
    (req[r].endpoint = "actions" /\ apc[r] = "done" /\ settled[r] = "threw"
       /\ clientRouteState[r].redirect.url = None) =>
      /\ processed[r].actionStatus = "500"
      /\ resp[r].status = "200"
      /\ resp[r].body = <<r, "payload">>

C14_ThrowWitness ==
  /\ req["A"].endpoint = "actions" /\ apc["A"] = "done"
  /\ settled["A"] = "threw" /\ req["A"].body = "actionForm"
  /\ clientRouteState["A"].redirect.url = None

\* C15: once an action has been processed on the action endpoint, the client
\* route state alone decides the shape of the response. With a redirect
\* pending it is serverRedirect's response and carries no payload of this
\* request; with none it is the payload, Content-Type text/x-component, with
\* the pending response headers. The outcome of the action plays no part.
C15_ShapeByRouteState ==
  \A r \in Reqs :
    (req[r].endpoint = "actions" /\ apc[r] = "done" /\ processed[r].isAction)
      => IF clientRouteState[r].redirect.url # None
         THEN /\ resp[r].kind \in {"Location", "X-Location", "forwarded"}
              /\ resp[r].body # <<r, "payload">>
         ELSE /\ resp[r].kind = "payload"
              /\ resp[r].body = <<r, "payload">>
              /\ resp[r].ctype = "text/x-component"
              /\ resp[r].setCookie = responseHeaders[r]

C15_Witness ==
  /\ req["A"].endpoint = "actions" /\ apc["A"] = "done"
  /\ settled["A"] = "threw"
  /\ clientRouteState["A"].redirect.url = "/next"
  /\ resp["A"].kind = "Location"

\* C16: when serverRedirect's proxied GET for a same-origin target is
\* answered with a text/x-component response, the response returned has
\* status 200 whatever status the redirect asked for, the body of the
\* proxied response, x-rsc-action-redirect-path equal to the target without
\* its origin (path, query and fragment kept), x-rsc-revalidate-paths with
\* the entries of revalidatePaths exactly when there are some, and no
\* Location header.
C16_ForwardedShape ==
  [][(/\ apc["A"] = "proxying" /\ apc'["A"] = "done"
      /\ req["B"].method = "GET"
      /\ resp["B"].ctype = "text/x-component")
     => LET state == clientRouteState["A"]
            paths == state.revalidatePaths
            out == resp'["A"]
        IN /\ out.status = "200"
           /\ out.body = resp["B"].body /\ out.body # EmptyBody
           /\ out.redirectPath = <<Resolve(state.redirect.url).rest>>
           /\ out.location = Absent
           /\ (Len(paths) = 0) = (out.revalidate = Absent)
           /\ Len(paths) > 0 =>
                /\ Len(out.revalidate) = Len(paths)
                /\ \A k \in 1..Len(paths) :
                     /\ out.revalidate[k].path = paths[k].path
                     /\ out.revalidate[k].type = paths[k].type]_vars

C16_Witness ==
  /\ apc["A"] = "done" /\ resp["A"].kind = "forwarded"
  /\ clientRouteState["A"].redirect.url = "http://localhost/a?b#c"
  /\ clientRouteState["A"].redirect.status = "307"
  /\ resp["A"].redirectPath = <<"/a?b#c">>
  /\ Len(clientRouteState["A"].revalidatePaths) = 0

\* C17: when serverRedirect's proxied fetch for a same-origin target fails,
\* or is answered with something whose Content-Type does not start with
\* text/x-component, the response returned is a plain redirect: empty body,
\* Location equal to the resolved target, the status passed to redirect()
\* (303 when none was), the pending response headers; no error comes out.
C17_FallsBackToRedirect ==
  [][(/\ apc["A"] = "proxying" /\ apc'["A"] # "proxying"
      /\ resp["B"].ctype # "text/x-component")
     => LET redirect == clientRouteState["A"].redirect
            out == resp'["A"]
        IN /\ apc'["A"] = "done"
           /\ out.kind = "Location"
           /\ out.body = EmptyBody
           /\ out.location = Href(Resolve(redirect.url))
           /\ out.status = redirect.status
           /\ out.status \in {"303", "307"}
           /\ out.setCookie = responseHeaders["A"]
           /\ out.redirectPath = Absent]_vars

\* A caller that accepts RSC got the Location redirect, so the proxied fetch
\* yielded no RSC payload; redirect() was given no status; a cookie was set.
C17_Witness ==
  /\ apc["A"] = "done" /\ resp["A"].kind = "Location"
  /\ AcceptRSC(req["A"]) /\ resp["A"].status = "303"
  /\ Len(resp["A"].setCookie) = 1

\* serverRedirect runs for r: a redirect is pending and the handler did not
\* refuse the request.
Redirecting(r) ==
  /\ clientRouteState[r].redirect.url # None
  /\ Returned(r)
  /\ req[r].endpoint = "actions" => processed[r].isAction

\* C18: when the redirect target is on another origin than the request,
\* whatever the caller accepts, no fetch to the target is issued, and the
\* response has an empty body, no Location, X-Location equal to the target
\* URL and X-Status equal to the redirect's status.
C18_CrossOriginNotFetched ==
  \A r \in Reqs :
    (Redirecting(r)
       /\ Resolve(clientRouteState[r].redirect.url).origin # Origin) =>
      /\ apc[r] \in {"assemble", "done"}
      /\ r = "A" => (req["B"] = NoRequest /\ apc["B"] = "idle")
      /\ apc[r] = "done" =>
           /\ resp[r].body = EmptyBody
           /\ resp[r].location = Absent
           /\ resp[r].redirectPath = Absent
           /\ resp[r].xLocation =
                Href(Resolve(clientRouteState[r].redirect.url))
           /\ resp[r].xStatus = clientRouteState[r].redirect.status

C18_Witness ==
  /\ apc["A"] = "done" /\ Redirecting("A")
  /\ req["A"].accept = "text/x-component"
  /\ clientRouteState["A"].redirect.url = "https://other.example/"
  /\ resp["A"].xLocation = <<"https://other.example", "/">>
  /\ resp["A"].xStatus = "307"

\* C19: when the redirect target is on the request's origin and the Accept
\* header is absent or does not contain text/x-component, no fetch is
\* issued and the response is a standard redirect: empty body, Location
\* equal to the resolved target, the redirect's status, and the pending
\* response headers with the Set-Cookie entries written during the action.
C19_PlainRedirect ==
  \A r \in Reqs :
    (Redirecting(r)
       /\ Resolve(clientRouteState[r].redirect.url).origin = Origin
       /\ req[r].accept # "text/x-component") =>
      /\ apc[r] \in {"assemble", "done"}
      /\ r = "A" => (req["B"] = NoRequest /\ apc["B"] = "idle")
      /\ apc[r] = "done" =>
           /\ resp[r].body = EmptyBody
           /\ resp[r].location =
                Href(Resolve(clientRouteState[r].redirect.url))
           /\ resp[r].status = clientRouteState[r].redirect.status
           /\ resp[r].setCookie = responseHeaders[r]
           /\ resp[r].xLocation = Absent

C19_Witness ==
  /\ apc["A"] = "done" /\ Redirecting("A")
  /\ req["A"].accept = None
  /\ clientRouteState["A"].redirect.url = "/next"
  /\ resp["A"].location = <<"http://localhost", "/next">>
  /\ Len(resp["A"].setCookie) = 1

\* C20: in a forwarded redirect response the Set-Cookie entries of the
\* pending headers and of the proxied response are merged per cookie name,
\* the last one winning: a name set by both appears once, with the proxied
\* response's value.
C20_CookiesMerged ==
  resp["A"].kind = "forwarded" =>
    LET c == resp["A"].setCookie
    IN /\ \A i, j \in 1..Len(c) : c[i].name = c[j].name => i = j
       /\ \A i \in 1..Len(c) :
            (\E j \in 1..Len(c) : c[j].name = c[i].name /\ c[j].by = "B")
              => c[i].by = "B"

\* What the code does instead: every Set-Cookie of the pending headers, in
\* order, followed by every Set-Cookie of the proxied response.
C20_CookiesAppended ==
  resp["A"].kind = "forwarded" =>
    LET c == resp["A"].setCookie
        own == responseHeaders["A"]
    IN /\ Len(c) >= Len(own)
       /\ \A i \in 1..Len(own) : c[i] = own[i]
       /\ \A i \in (Len(own) + 1)..Len(c) : c[i].by = "B"

C20_AppendedWitness ==
  /\ resp["A"].kind = "forwarded"
  /\ Len(resp["A"].setCookie) = 2
  /\ resp["A"].setCookie[1].name = resp["A"].setCookie[2].name
  /\ resp["A"].setCookie[1].value = "v"
  /\ resp["A"].setCookie[2].value = "w"

\* C21: the abort signal of serverRedirect's fetch is triggered exactly when
\* a fetch was attempted and did not yield a text/x-component response (it
\* failed, or the Content-Type is another): never when no fetch was issued,
\* never when the proxied body is returned, and together with the fallback
\* response, which is not returned without it.
C21_AbortState ==
  /\ signal # "none" => (apc["A"] \in {"proxying", "done"}
                           /\ req["A"].accept = "text/x-component")
  /\ apc["A"] = "proxying" => signal = "armed"
  /\ resp["A"].kind = "forwarded" => signal = "armed"
  /\ signal = "aborted" =>
       (apc["A"] = "done" /\ resp["A"].kind = "Location")
  /\ (apc["A"] = "done" /\ resp["A"].kind = "Location"
        /\ req["A"].accept = "text/x-component") => signal = "aborted"

C21_AbortStep ==
  (apc["A"] = "proxying" /\ apc'["A"] # "proxying") =>
    (signal' = "aborted") = (resp["B"].ctype # "text/x-component")

C21_AbortOnFailure == []C21_AbortState /\ [][C21_AbortStep]_vars

C21_Witness ==
  /\ signal = "aborted" /\ apc["A"] = "done"
  /\ resp["A"].kind = "Location"

\* ------------------------------------------------------- merge properties
\* The writes to the cookie map in the order mergeHeaders makes them: for
\* each source the pairs of its Cookie header, then its Set-Cookie cookies.
WritesOf(headers, key) ==
  LET found == SelectSeq(headers, LAMBDA h : h[1] = key)
  IN IF found = <<>> THEN <<>>
     ELSE IF key = "cookie"
     THEN [k \in 1..Len(found[1][2]) |->
             [name |-> found[1][2][k][1], value |-> found[1][2][k][2],
              via |-> key]]
     ELSE [k \in 1..Len(found) |->
             [name |-> found[k][2][1], value |-> found[k][2][2], via |-> key]]

RECURSIVE Writes(_)
Writes(srcs) ==
  IF srcs = <<>> THEN <<>>
  ELSE WritesOf(Head(srcs), "cookie") \o WritesOf(Head(srcs), "set-cookie")
         \o Writes(Tail(srcs))

CookieNames == {"a", "b"}
WritesTo(n) == {k \in 1..Len(Writes(sources)) : Writes(sources)[k].name = n}
Max(S) == CHOOSE k \in S : \A j \in S : j <= k
Min(S) == CHOOSE k \in S : \A j \in S : k <= j
LastWrite(n) == Writes(sources)[Max(WritesTo(n))]
Deletes(k) ==
  Writes(sources)[k].via = "set-cookie" /\ Writes(sources)[k].value = ""
Survives(n) == WritesTo(n) # {} /\ LastWrite(n).value # ""

\* The pairs of the Cookie header of the result, none when it has no such
\* header.
MergedCookie ==
  LET found == SelectSeq(merged, LAMBDA h : h[1] = "cookie")
  IN IF found = <<>> THEN <<>> ELSE found[1][2]
PlacesOf(n) == {k \in 1..Len(MergedCookie) : MergedCookie[k][1] = n}

\* Last write wins: a surviving name is in the Cookie header exactly once,
\* with the value of the last Cookie or Set-Cookie that set it.
LastWriteWins ==
  \A n \in CookieNames :
    IF Survives(n)
    THEN /\ Cardinality(PlacesOf(n)) = 1
         /\ \A k \in PlacesOf(n) : MergedCookie[k][2] = LastWrite(n).value
    ELSE PlacesOf(n) = {}

\* The first write that put n into the map, and the first one that did so
\* after the last empty-valued Set-Cookie for n.
FirstInsertion(n) == Min({k \in WritesTo(n) : ~Deletes(k)})
LastInsertion(n) ==
  Min({k \in WritesTo(n) :
         ~Deletes(k) /\ \A j \in WritesTo(n) : j > k => ~Deletes(j)})

\* C22 as stated: last write wins per cookie name and the names of the
\* Cookie header stand in the order of their first insertion.
C22_FirstInsertionOrder ==
  /\ LastWriteWins
  /\ \A i, j \in 1..Len(MergedCookie) :
       i < j => FirstInsertion(MergedCookie[i][1])
                  < FirstInsertion(MergedCookie[j][1])

\* C22, amended: last write wins per cookie name and the names of the
\* Cookie header stand in the order in which they were last put into the
\* map, an empty-valued Set-Cookie taking the name out of it.
C22_LastWriteWins ==
  /\ LastWriteWins
  /\ \A i, j \in 1..Len(MergedCookie) :
       i < j => LastInsertion(MergedCookie[i][1])
                  < LastInsertion(MergedCookie[j][1])

\* [{Cookie: a=1;b=2}, {Set-Cookie: b=3}] yields Cookie: a=1; b=3.
C22_Witness ==
  /\ sources = << << <<"cookie", << <<"a", "1">>, <<"b", "2">> >> >> >>,
                  << <<"set-cookie", <<"b", "3">> >> >> >>
  /\ merged = << <<"cookie", << <<"a", "1">>, <<"b", "3">> >> >> >>

\* C23: an empty-valued Set-Cookie deletes. A name whose last write is an
\* empty-valued Set-Cookie is not in the resulting Cookie header; when no
\* name survives the result has no Cookie header at all; a name set again
\* with a non-empty value after its deletion is back with that value.
C23_DeletionMarker ==
  /\ \A n \in CookieNames :
       (WritesTo(n) # {} /\ Deletes(Max(WritesTo(n)))) => PlacesOf(n) = {}
  /\ (\A n \in CookieNames : ~Survives(n)) =>
       \A k \in 1..Len(merged) : merged[k][1] # "cookie"
  /\ \A n \in CookieNames :
       ((\E k \in WritesTo(n) : Deletes(k)) /\ LastWrite(n).value # "") =>
         \E k \in PlacesOf(n) : MergedCookie[k][2] = LastWrite(n).value

\* [{Cookie: a=1}, {Set-Cookie: a=}] yields no Cookie header.
C23_Witness ==
  /\ sources = << << <<"cookie", << <<"a", "1">> >> >> >>,
                  << <<"set-cookie", <<"a", "">> >> >> >>
  /\ merged = <<>>

\* C24: the result of mergeHeaders has no Set-Cookie header and at most one
\* Cookie header, and its other headers are those of the sources, all of
\* them, in source order: a name that several sources carry keeps every
\* value.
C24_OtherHeadersAppended ==
  LET Plain(headers) ==
        SelectSeq(headers, LAMBDA h : h[1] \notin {"cookie", "set-cookie"})
      Expected ==
        Plain(IF Len(sources) >= 1 THEN sources[1] ELSE <<>>)
          \o Plain(IF Len(sources) >= 2 THEN sources[2] ELSE <<>>)
          \o Plain(IF Len(sources) >= 3 THEN sources[3] ELSE <<>>)
          \o Plain(IF Len(sources) >= 4 THEN sources[4] ELSE <<>>)
  IN /\ \A k \in 1..Len(merged) : merged[k][1] # "set-cookie"
     /\ Cardinality({k \in 1..Len(merged) : merged[k][1] = "cookie"}) <= 1
     /\ Plain(merged) = Expected

C24_Witness ==
  /\ Len(sources) = 3
  /\ \E i, j \in 1..Len(merged) :
       /\ i < j
       /\ merged[i] = <<"x-trace", "t1">>
       /\ merged[j] = <<"x-trace", "t2">>
  /\ \E k \in 1..Len(merged) : merged[k][1] = "cookie"
  /\ \E h \in 1..Len(sources[1]) : sources[1][h][1] = "set-cookie"

\* --------------------------------------------- client route state properties
\* The value a state object stands for: its redirect (or none) and the
\* entries of its revalidatePaths, in order.
ViewOf(heap, state) ==
  LET s == heap.states[state]
      items == heap.arrays[s.revalidatePaths]
  IN [redirect |-> IF s.redirect = Undefined THEN NoCall
                   ELSE heap.redirects[s.redirect],
      revalidatePaths |-> [k \in 1..Len(items) |-> heap.entries[items[k]]]]

Live == ViewOf(Heap, currentClientRouteState)
Snapshot(k) == ViewOf(Heap, snapshots[k])

\* The snapshot the last operation returned.
Fresh == Snapshot(op.target)

Stepped(kind) == nops' = nops + 1 /\ op'.kind = kind

\* C25: the redirect of a snapshot is that of the last redirect call before
\* it, with status 303 when the call gave none, and there is none when
\* redirect was never called: earlier calls leave no trace.
C25_LastRedirect ==
  op.kind = "snapshot" =>
    Fresh.redirect =
      IF lastRedirect = NoCall THEN NoCall
      ELSE [url |-> lastRedirect.url,
            status |-> IF lastRedirect.status = None THEN "303"
                       ELSE lastRedirect.status]

\* C25: a redirect call leaves revalidatePaths as it was.
C25_PathsKept ==
  Stepped("redirect") =>
    ViewOf(Heap', currentClientRouteState).revalidatePaths =
      Live.revalidatePaths

\* C25: redirect is overwrite-only.
C25_RedirectOverwrites == []C25_LastRedirect /\ [][C25_PathsKept]_vars

\* A snapshot taken after two redirect calls to different addresses, the last
\* one without a status, and after a revalidatePath call.
C25_Witness ==
  /\ op.kind = "snapshot"
  /\ Len(redirects) >= 3
  /\ redirects[1].url # lastRedirect.url
  /\ lastRedirect # NoCall
  /\ lastRedirect.status = None
  /\ Fresh.redirect.status = "303"
  /\ Len(Fresh.revalidatePaths) = 1

\* C26: the revalidatePaths of a snapshot are the arguments of the
\* revalidatePath calls before it: one entry per call, in call order,
\* duplicates kept.
C26_AllCalls ==
  op.kind = "snapshot" => Fresh.revalidatePaths = pathCalls

\* C26: a revalidatePath call leaves the pending redirect as it was.
C26_RedirectKept ==
  Stepped("revalidatePath") =>
    ViewOf(Heap', currentClientRouteState).redirect = Live.redirect

\* C26: revalidatePath accumulates.
C26_PathsAccumulate == []C26_AllCalls /\ [][C26_RedirectKept]_vars

\* A snapshot taken after three revalidatePath calls, the
\* first and the last with the same arguments.
C26_Witness ==
  /\ op.kind = "snapshot"
  /\ Len(pathCalls) = 3
  /\ pathCalls[1] = pathCalls[3]
  /\ pathCalls[1] # pathCalls[2]
  /\ Len(Fresh.revalidatePaths) = 3

\* C27: getCurrentClientRouteState returns a deep copy. What the holder of a
\* snapshot does to it (replacing or editing its redirect, pushing to its
\* revalidatePaths or editing an entry) changes neither the live state nor
\* any other snapshot, and redirect and revalidatePath calls change no
\* snapshot handed out before.
C27_Step ==
  /\ Stepped("mutate") =>
       /\ ViewOf(Heap', currentClientRouteState) = Live
       /\ \A k \in 1..Len(snapshots) :
            k # op'.target => ViewOf(Heap', snapshots[k]) = Snapshot(k)
  /\ (Stepped("redirect") \/ Stepped("revalidatePath")) =>
       \A k \in 1..Len(snapshots) :
         ViewOf(Heap', snapshots[k]) = Snapshot(k)

C27_DeepCopy == [][C27_Step]_vars

\* Two snapshots of a state with a redirect; the holder of the first has
\* edited its redirect in place.
C27_Witness ==
  /\ op.kind = "mutate"
  /\ Len(snapshots) = 2
  /\ lastRedirect # NoCall
  /\ Snapshot(1).redirect.url = "/changed"
  /\ Snapshot(1).redirect.status = Live.redirect.status
  /\ Snapshot(2).redirect.url = lastRedirect.url
  /\ Live.redirect.url = lastRedirect.url

\* ------------------------------------------- properties outside a scope
\* C28: every redirect or revalidatePath call made outside a scope raised.
C28_Raised == outside.n > 0 => outside.error = "Not available"

\* C28: a redirect or revalidatePath call made outside a scope changes no
\* request's client route state, nor its response headers.
C28_NothingChanged ==
  outside'.n = outside.n + 1 =>
    UNCHANGED <<clientRouteState, responseHeaders, store>>

\* C28: redirect and revalidatePath, called while no runWithRouteStorage scope
\* is active, raise an error and change no request's client route state, at
\* any point: before any request, beside requests in their scopes, and after
\* requests have entered and left.
C28_OutsideRaises == []C28_Raised /\ [][C28_NothingChanged]_vars

\* The call was made after a request had entered and left its scope, while
\* another request is in its scope with a redirect pending.
C28_Witness ==
  /\ outside.n > 0
  /\ outside.after
  /\ outside.error = "Not available"
  /\ \E q \in Reqs :
       /\ q # outside.by
       /\ spc[q] = "scope"
       /\ clientRouteState[q].redirect.by = q

\* ------------------------------------------------- partial context properties
StandInCalls == {k \in 1..Len(log) : log[k].ev = "stand-in next"}

\* C29: in the context given to the error handler and to the default handler,
\* next() raises an error when called instead of giving a response.
C29_NextFailsLoudly == \A k \in StandInCalls : log[k].out.t = "throw"

\* C29, as the code has it: next() of the partial context resolves with a
\* response of status 200 and body 'Internal error'; no route handler starts
\* after the call, and the handler that returned it answers with it.
C29_NextAnswers200 ==
  \A k \in StandInCalls :
    /\ log[k].out.t = "resp"
    /\ log[k].out.status = 200
    /\ log[k].out.body = <<"Internal error", 0>>
    /\ \A j \in (k + 1)..Len(log) : log[j].ev \notin {"start", "next"}
    /\ k > 1
    /\ log[k - 1].ev \in {"default", "error"}
    /\ log[k - 1].out = log[k].out

\* A route handler threw an Error, the custom error handler returned
\* ctx.next(), and fetch resolved with status 200.
C29_Witness ==
  /\ pc = "resolved"
  /\ outcome.status = 200
  /\ \E k \in StandInCalls :
       /\ log[k - 1].ev = "error"
       /\ \E j \in 1..(k - 1) : log[j].ev = "start" /\ log[j].out.t = "throw"

\* ------------------------------------------------ response helper properties
\* What the caller supplied: the status, if any, and the headers, if any.
SuppliedStatus ==
  CASE helperCall.arg.tag = "number" -> helperCall.arg.status
    [] helperCall.arg.tag = "init" /\ helperCall.arg.hasStatus ->
         helperCall.arg.status
    [] OTHER -> 200

Supplied ==
  IF helperCall.headers.given THEN helperCall.headers.list
  ELSE helperCall.arg.headers

\* response.headers carries the value under the name.
Present(name, value) ==
  \E k \in 1..Len(helperResponse.headers) :
    /\ helperResponse.headers[k][1] = Lower(name)
    /\ \E v \in 1..Len(helperResponse.headers[k][2]) :
         helperResponse.headers[k][2][v] = value

OwnType ==
  CASE helperCall.helper = "json" -> "application/json"
    [] helperCall.helper = "text" -> "text/plain"
    [] helperCall.helper = "html" -> "text/html; charset=UTF-8"
    [] OTHER -> None

ContentTypes ==
  {k \in 1..Len(helperResponse.headers) :
     helperResponse.headers[k][1] = "content-type"}

StatusAndType ==
  /\ helperResponse.status = SuppliedStatus
  /\ Cardinality(ContentTypes) = 1
  /\ \A k \in ContentTypes : helperResponse.headers[k][2] = <<OwnType>>

\* C30: for each helper and each call shape, the status of the response is
\* the supplied one, or 200; every supplied header is present in the
\* response; Content-Type is the helper's own, whatever the caller supplied.
C30_HelpersNormalize ==
  helperCall.helper # None =>
    /\ StatusAndType
    /\ \A k \in 1..Len(Supplied) :
         Lower(Supplied[k][1]) # "content-type" =>
           Present(Supplied[k][1], Supplied[k][2])

\* C30, as the code has it: status and Content-Type as stated; the headers
\* supplied in the shape (data, status, headers) are all present; of the
\* headers supplied in a responseInit, those of a name other than Set-Cookie
\* are present, and of its Set-Cookie headers the last one only.
LastOf(name) ==
  {k \in 1..Len(Supplied) :
     /\ Lower(Supplied[k][1]) = name
     /\ \A j \in (k + 1)..Len(Supplied) : Lower(Supplied[j][1]) # name}

C30_InitKeepsLastSetCookie ==
  helperCall.helper # None =>
    /\ StatusAndType
    /\ \A k \in 1..Len(Supplied) :
         Lower(Supplied[k][1]) # "content-type" =>
           (Present(Supplied[k][1], Supplied[k][2])
              <=> \/ helperCall.shape # "init"
                  \/ Lower(Supplied[k][1]) # "set-cookie"
                  \/ k \in LastOf("set-cookie"))

\* text(data, { headers: [[Set-Cookie, a=1], [Set-Cookie, b=2]] }) answered
\* with b=2 as its only Set-Cookie.
C30_Witness ==
  /\ helperCall.helper = "text"
  /\ helperCall.shape = "init"
  /\ Supplied = << <<"Set-Cookie", "a=1">>, <<"Set-Cookie", "b=2">> >>
  /\ helperResponse.status = 200
  /\ ValuesOf(helperResponse.headers, "set-cookie") = <<"b=2">>

\* --------------------------------------------------- state record properties
Events(r, evs) == {k \in 1..Len(clog[r]) : clog[r][k].ev \in evs}

\* C31: when the next() a handler awaits has resolved, every handler
\* downstream of it that ran for the request has finished: the fields they
\* wrote are in the state the handler then reads, what it is handed is what
\* the handler below it returned, and no handler of the request starts after
\* that.
C31_Sequential ==
  \A r \in Reqs : \A k \in Events(r, {"resume"}) :
    /\ \A j \in Events(r, {"start", "default"}) :
         (j < k /\ clog[r][j].i > clog[r][k].i) =>
           <<r, clog[r][j].i>> \in clog[r][k].seen
    /\ k > 1
    /\ clog[r][k].out = clog[r][k - 1].out
    /\ clog[r][k].out # None
    /\ \A j \in Events(r, {"start", "default"}) : j < k

\* Request A went through two routes that await next() and the default
\* handler; the first route resumed last and found the three fields.
C31_Witness ==
  /\ Len(croutes) = 2
  /\ cpc["A"] = "done"
  /\ cpc["B"] = "execute"
  /\ Len(clog["A"]) = 5
  /\ clog["A"][5].ev = "resume"
  /\ clog["A"][5].i = 1
  /\ clog["A"][5].seen = {<<"A", 1>>, <<"A", 2>>, <<"A", 3>>}

\* C35: the state the error handler is given is the record of the chain, and
\* holds the fields the handlers wrote before the throw, whether fetch was
\* given a state or not.
C35_ErrorSeesChainState ==
  \A r \in Reqs : \A e \in Events(r, {"error"}) :
    /\ clog[r][e].ref = chain[r]
    /\ \A j \in Events(r, {"start"}) : <<r, clog[r][j].i>> \in clog[r][e].seen

\* C35, as the code has it: the error handler is given the state argument of
\* fetch. With one it is the record of the chain; without one it is a new,
\* empty record, and the fields written by the chain are not in it.
C35_ErrorSeesFetchArgument ==
  \A r \in Reqs : \A e \in Events(r, {"error"}) :
    IF given[r] # Undefined
    THEN /\ clog[r][e].ref = chain[r]
         /\ \A j \in Events(r, {"start"}) :
              <<r, clog[r][j].i>> \in clog[r][e].seen
    ELSE /\ clog[r][e].ref # chain[r]
         /\ clog[r][e].seen = {}
         /\ records[chain[r]] # {}

\* fetch(request) without a state: a middleware wrote its field, the route
\* after it threw, and the error handler found an empty state.
C35_Witness ==
  /\ given["A"] = Undefined
  /\ Events("A", {"error"}) # {}
  /\ records[chain["A"]] = {<<"A", 1>>, <<"A", 2>>}
  /\ \A e \in Events("A", {"error"}) : clog["A"][e].seen = {}

\* C40: requests fetched without a state never share a record; every route
\* handler and the default handler of a request hold the record of its
\* chain, and find in it no field another request wrote.
C40_OwnRecord ==
  /\ \A r, q \in Reqs :
       (r # q /\ cpc[r] # "idle" /\ cpc[q] # "idle"
          /\ given[r] = Undefined /\ given[q] = Undefined) =>
         chain[r] # chain[q]
  /\ \A r \in Reqs : \A k \in Events(r, {"start", "resume", "default"}) :
       /\ clog[r][k].ref = chain[r]
       /\ \A f \in clog[r][k].seen : f[1] = r

\* C40: serving a request never changes the route list.
C40_RoutesKept == (\E r \in Reqs : cpc'[r] # "idle") => croutes' = croutes

\* C40: no state record is shared between requests, and fetch leaves the
\* route list alone.
C40_NoSharedState == []C40_OwnRecord /\ [][C40_RoutesKept]_vars

\* Both requests were fetched without a state and ran through a route and
\* the default handler, each finding its own two fields.
C40_Witness ==
  /\ given["A"] = Undefined /\ given["B"] = Undefined
  /\ cpc["A"] = "done" /\ cpc["B"] = "done"
  /\ records[chain["A"]] = {<<"A", 1>>, <<"A", 2>>}
  /\ records[chain["B"]] = {<<"B", 1>>, <<"B", 2>>}
  /\ Events("A", {"default"}) # {} /\ Events("B", {"default"}) # {}

\* --------------------------------------------------- forwarded header properties
HeaderOf(headers, name) == SelectSeq(headers, LAMBDA h : h[1] = name)

\* The pairs of a Cookie header, if there is one.
CookiePairs(headers) ==
  IF HeaderOf(headers, "cookie") = <<>> THEN <<>>
  ELSE HeaderOf(headers, "cookie")[1][2]

ValueIn(pairs, name) ==
  IF \E k \in 1..Len(pairs) : pairs[k][1] = name
  THEN pairs[CHOOSE k \in 1..Len(pairs) :
               /\ pairs[k][1] = name
               /\ \A j \in (k + 1)..Len(pairs) : pairs[j][1] # name][2]
  ELSE ""

\* The Set-Cookie pairs of the pending response headers.
PendingCookies ==
  LET found == HeaderOf(forwarded.pending, "set-cookie")
  IN [k \in 1..Len(found) |-> found[k][2]]

Named(pairs) == {pairs[k][1] : k \in 1..Len(pairs)}

\* C32: the proxied GET carries neither x-rsc-action-id nor
\* Transfer-Encoding; every other header of the request and of the pending
\* response headers but Cookie and Set-Cookie is carried over; its Cookie
\* header gives each name the value the pending Set-Cookie of that name has,
\* and otherwise the value of the request's Cookie, a name with an empty
\* value being left out.
C32_ForwardedHeaders ==
  forwarded.called =>
    LET Plain(headers) ==
          SelectSeq(headers, LAMBDA h :
            h[1] \notin {"cookie", "set-cookie", "transfer-encoding",
                         "x-rsc-action-id"})
        sent == CookiePairs(forwarded.headers)
        had == CookiePairs(forwarded.request)
    IN /\ HeaderOf(forwarded.headers, "x-rsc-action-id") = <<>>
       /\ HeaderOf(forwarded.headers, "transfer-encoding") = <<>>
       /\ HeaderOf(forwarded.headers, "set-cookie") = <<>>
       /\ Plain(forwarded.headers) =
            Plain(forwarded.request) \o Plain(forwarded.pending)
       /\ \A n \in Named(PendingCookies) :
            ValueIn(sent, n) = ValueIn(PendingCookies, n)
       /\ \A n \in Named(had) \ Named(PendingCookies) :
            ValueIn(sent, n) = ValueIn(had, n)
       /\ Named(sent) \subseteq Named(had) \cup Named(PendingCookies)
       /\ Len(HeaderOf(forwarded.headers, "cookie")) <= 1

\* The request carried a=1, Transfer-Encoding and the action id; the action
\* set c=3 and a=9; the GET is sent with a=9 and c=3.
C32_Witness ==
  /\ forwarded.called
  /\ HeaderOf(forwarded.request, "transfer-encoding") # <<>>
  /\ HeaderOf(forwarded.request, "x-rsc-action-id") # <<>>
  /\ CookiePairs(forwarded.request) = << <<"a", "1">> >>
  /\ Len(PendingCookies) = 2
  /\ CookiePairs(forwarded.headers) = << <<"a", "9">>, <<"c", "3">> >>

\* --------------------------------------------------- render format properties
\* The render handler of r answered with the page, no redirect being pending.
Rendered(r) ==
  /\ apc[r] = "done"
  /\ req[r].endpoint = "render"
  /\ clientRouteState[r].redirect.url = None

\* C33: on the render endpoint, no redirect pending, the answer is the RSC
\* payload (text/x-component) when the query has __rsc, or when Accept does
\* not contain text/html and the query has no __html; otherwise it is HTML.
C33_FormatChoice ==
  \A r \in Reqs :
    Rendered(r) =>
      LET q == req[r]
          payload == \/ "__rsc" \in q.query
                     \/ q.accept # "text/html" /\ "__html" \notin q.query
      IN IF payload
         THEN resp[r].kind = "payload" /\ resp[r].ctype = "text/x-component"
         ELSE resp[r].kind = "html" /\ resp[r].ctype = "text/html"

\* __html without __rsc makes a caller that accepts text/x-component get
\* HTML.
C33_Witness ==
  /\ Rendered("A")
  /\ req["A"].query = {"__html"}
  /\ req["A"].accept = "text/x-component"
  /\ resp["A"].ctype = "text/html"

\* __rsc makes a caller that accepts text/html get the payload, __html or
\* not.
C33_WitnessRsc ==
  /\ Rendered("A")
  /\ req["A"].query = {"__rsc", "__html"}
  /\ req["A"].accept = "text/html"
  /\ resp["A"].ctype = "text/x-component"

\* ------------------------------------------------- client address properties
\* The loopback, private, link-local and unique-local addresses of the model,
\* listed by hand.
NonPublic ==
  {Loopback4, Private10, Private172, Private172Top, Private192, LinkLocal4,
   Loopback6, UniqueLocal6, UniqueLocal6Upper}

\* Those of them the code turns away: the IPv4 ones and the lower-case fd
\* address.
TurnedAway ==
  {Loopback4, Private10, Private172, Private172Top, Private192, LinkLocal4,
   UniqueLocal6}

IPCalled == clientIP # NotCalled

\* C34 (as stated): getClientIP never returns a loopback, private,
\* link-local or unique-local address taken from a proxy header; such an
\* address can only be the connection's remote address.
C34_NoNonPublicFromHeader ==
  IPCalled /\ clientIP \in NonPublic => clientIP = remoteAddr

RemoteOrUnknown == IF remoteAddr # Empty THEN remoteAddr ELSE Unknown

\* C34 (what the code does): isValidPublicIP turns away the IPv4 loopback,
\* private and link-local ranges and lower-case fd addresses, but accepts
\* ::1 and an upper-case FD address; getClientIP consults CF-Connecting-IP,
\* True-Client-IP, X-Real-IP, X-Forwarded-For, Forwarded and then the remote
\* address, the first of the three single-valued headers that is present
\* deciding the result alone.
C34_PriorityAndIPv4Ranges ==
  /\ checkedIP # Empty => (checkedValid <=> checkedIP \notin TurnedAway)
  /\ IPCalled =>
       LET h == ipHeaders
           single == IF h.cfConnectingIP # Empty THEN h.cfConnectingIP
                     ELSE IF h.trueClientIP # Empty THEN h.trueClientIP
                     ELSE h.xRealIP
           kept == {i \in 1..Len(h.xForwardedFor) :
                      h.xForwardedFor[i] \notin TurnedAway}
           fors == {i \in 1..Len(h.forwarded) : h.forwarded[i].key = "for"}
       IN /\ clientIP \in TurnedAway => clientIP = remoteAddr
          /\ IF single # Empty
             THEN clientIP = IF single \in TurnedAway THEN Unknown ELSE single
             ELSE IF kept # {}
             THEN clientIP =
                    h.xForwardedFor[CHOOSE i \in kept : \A j \in kept : i <= j]
             ELSE IF fors = {}
             THEN clientIP = RemoteOrUnknown
             ELSE clientIP \in {RemoteOrUnknown, <<"8", ".", "8", ".", "4", ".", "4">>,
                                <<"[">>}

\* True-Client-IP carries 127.0.0.1 and X-Real-IP a public address: the
\* answer is 'unknown'.
C34_Witness ==
  /\ ipHeaders.cfConnectingIP = Empty
  /\ ipHeaders.trueClientIP = Loopback4
  /\ ipHeaders.xRealIP = Public4
  /\ clientIP = Unknown

\* CF-Connecting-IP carries ::1 and getClientIP returns it.
C34_LoopbackReturned ==
  /\ ipHeaders.cfConnectingIP = Loopback6
  /\ clientIP = Loopback6

\* ------------------------------------------------- capture of action failures
\* A POST to the action endpoint with a non-empty action id and a Referer
\* that parses: the fetch-style path of processAction is taken.
OnFetchPath(r) ==
  /\ req[r].endpoint = "actions"
  /\ req[r].method = "POST"
  /\ req[r].actionId \in {"known", "unknown"}
  /\ req[r].referer \notin {None, "invalid"}

\* C36: on the fetch-style path only an exception of the action invocation
\* is captured as { ok: false } with actionStatus 500.  When the arguments do
\* not decode or the action id is unknown the action is never invoked,
\* processAction returns nothing and the handler ends by rethrowing the
\* rejection instead of answering; when the invoked action throws, the
\* handler still gets a result and answers.
C36_OnlyInvocationCaptured ==
  \A r \in Reqs :
    OnFetchPath(r) /\ Over(r) =>
      IF req[r].body # "args" \/ req[r].actionId = "unknown"
      THEN /\ apc[r] = "failed"
           /\ resp[r].kind = "rejected"
           /\ invoked[r] = 0
           /\ processed[r].keys = {}
      ELSE /\ apc[r] = "done"
           /\ invoked[r] = 1
           /\ processed[r].isAction
           /\ processed[r].returnValue.ok = (settled[r] = "returned")
           /\ processed[r].actionStatus =
                IF settled[r] = "threw" THEN "500" ELSE None

\* An unknown action id with arguments that decode: the handler rethrew.
C36_Witness ==
  /\ OnFetchPath("A")
  /\ req["A"].actionId = "unknown"
  /\ req["A"].body = "args"
  /\ apc["A"] = "failed"
  /\ resp["A"].kind = "rejected"

\* The invoked action threw: captured, and the handler answered.
C36_WitnessCaptured ==
  /\ OnFetchPath("A")
  /\ apc["A"] = "done"
  /\ settled["A"] = "threw"
  /\ processed["A"].returnValue.ok = FALSE

\* ------------------------------------------------- client request properties
\* The request was built for an action with a non-empty id / for no action.
BuiltForAction == built.actionId \in {"known", "unknown"}
BuiltForNavigation == built # NoBuilt /\ built.actionId = None

\* What a navigation request is in every reading: a GET without the
\* action-id header, to the page's own pathname, classified isAction false.
NavigationRequest ==
  BuiltForNavigation =>
    /\ built.method = "GET"
    /\ built.pathname = location.pathname
    /\ classified # None => classified = "notPost"

\* C38 (as stated): for every page URL and every non-empty action id the
\* built request is a POST carrying x-rsc-action-id that the router
\* dispatches to the action handler and processAction takes as fetch-style;
\* without an action it is a GET without the header, isAction false.
C38_ActionRequestDispatched ==
  /\ BuiltForAction =>
       /\ built.method = "POST"
       /\ dispatched # None => dispatched = "actions"
       /\ classified # None => classified = "readBody"
  /\ NavigationRequest

\* The pathname of the action request, page by page.
PostfixedPath ==
  CASE location.pathname = <<"">> -> <<"_rsc", "actions">>
    [] location.pathname = <<"about">> -> <<"about_rsc", "actions">>
    [] location.pathname = <<"about", "">> -> <<"about", "_rsc", "actions">>
    [] location.pathname = <<"docs", "intro">> ->
         <<"docs", "intro_rsc", "actions">>

\* C38 (what the code does): the action request is a POST carrying
\* x-rsc-action-id whose pathname is the page's with the text _rsc/actions
\* appended; only from the page "/" is that /_rsc/actions, dispatched to the
\* action handler and taken as fetch-style, from any other page no route
\* matches and the default handler gets it.  Without an action the request
\* is a GET without the header, isAction false.
C38_OnlyFromRootPage ==
  /\ BuiltForAction =>
       /\ built.method = "POST"
       /\ built.pathname = PostfixedPath
       /\ dispatched # None =>
            dispatched = IF location.pathname = <<"">> THEN "actions"
                         ELSE "default"
       /\ classified # None => classified = "readBody"
  /\ NavigationRequest

\* An action called from the page /about ends in the default handler.
C38_Witness ==
  /\ location.pathname = <<"about">>
  /\ built.actionId = "known"
  /\ built.pathname = <<"about_rsc", "actions">>
  /\ dispatched = "default"

\* An action called from the page / is taken as fetch-style.
C38_WitnessRoot ==
  /\ location.pathname = <<"">>
  /\ built.actionId = "known"
  /\ dispatched = "actions"
  /\ classified = "readBody"

\* ------------------------------------------ partial context helper properties
PartialTypes ==
  {k \in 1..Len(partialResponse.headers) :
     partialResponse.headers[k][1] = "content-type"}

PartialOwnType ==
  CASE partialCall.helper = "json" -> "application/json"
    [] partialCall.helper = "text" -> "text/plain"
    [] partialCall.helper = "html" -> "text/html; charset=UTF-8"
    [] OTHER -> None

\* C39 (as stated): json, text and html of the context handed to the default
\* and error handlers answer with the supplied status, or 200, and with the
\* helper's Content-Type.
C39_PartialHelpersHonourArguments ==
  partialCall.helper # None =>
    /\ partialResponse.status =
         IF partialCall.arg.tag = "number" THEN partialCall.arg.status
         ELSE 200
    /\ \A k \in PartialTypes :
         partialResponse.headers[k][2] = <<PartialOwnType>>
    /\ PartialTypes # {}

\* C39 (what the code does): whatever status is supplied, the response has
\* the status 200, the Content-Type of a plain string body and the text of
\* the data as its body.
C39_PartialHelpersIgnoreArguments ==
  partialCall.helper # None =>
    /\ partialResponse.status = 200
    /\ Cardinality(PartialTypes) = 1
    /\ \A k \in PartialTypes :
         partialResponse.headers[k][2] = <<"text/plain;charset=UTF-8">>
    /\ partialResponse.body =
         IF partialCall.helper = "json" THEN <<"json", partialCall.data>>
         ELSE partialCall.data

\* A default handler answering c.json(body, 404) produces status 200.
C39_Witness ==
  /\ partialCall.helper = "json"
  /\ partialCall.arg = Number(404)
  /\ partialResponse.status = 200

\* ------------------------------------------------ growth of the route state
\* C37: a snapshot is the live state of the moment it is taken.
C37_SnapshotIsLive == op.kind = "snapshot" => Fresh = Live

\* C37: once redirect has been called, a snapshot has a redirect; this is
\* what serverRedirect tests before its 'Redirect not found'.
C37_RedirectStays ==
  op.kind = "snapshot" /\ lastRedirect # NoCall => Fresh.redirect # NoCall

\* C37: no step clears the pending redirect of the live state, and the
\* revalidatePaths before a step are a prefix of those after it.
C37_Grows ==
  LET now == Live
      after == ViewOf(Heap', currentClientRouteState)
  IN /\ now.redirect # NoCall => after.redirect # NoCall
     /\ Len(after.revalidatePaths) >= Len(now.revalidatePaths)
     /\ SubSeq(after.revalidatePaths, 1, Len(now.revalidatePaths)) =
          now.revalidatePaths

\* C37: the client route state of one storage only grows, so that a
\* snapshot taken after one that showed a redirect shows a redirect too.
C37_OnlyGrows ==
  [](C37_SnapshotIsLive /\ C37_RedirectStays) /\ [][C37_Grows]_vars

\* A second snapshot, taken after a first one that showed the redirect and
\* after a further revalidatePath call: it shows the redirect and one more
\* path.
C37_Witness ==
  /\ op.kind = "snapshot"
  /\ Len(snapshots) = 2
  /\ Snapshot(1).redirect # NoCall
  /\ Fresh.redirect # NoCall
  /\ Len(Fresh.revalidatePaths) = Len(Snapshot(1).revalidatePaths) + 1

====
